---- MODULE Spec2Model ----
(***************************************************************************)
(* A model of fake-s3 (src/index.js): the FakeS3 server instance, its      *)
(* bucket namespace, the ListObjectsV2 listing engine, the request router, *)
(* the disk cache codec and the waitForFiles polling loop.                 *)
(*                                                                         *)
(* Strings that the code slices, splits or compares (keys, bucket names,   *)
(* prefixes, delimiters, path names, tokens) are sequences of one-char     *)
(* strings; "" (falsy in JavaScript) is the empty sequence <<>>.           *)
(* A JavaScript Map is a sequence of [k, v] records in insertion order.    *)
(***************************************************************************)
EXTENDS Integers, Sequences, FiniteSets, TLC

VARIABLES
    srv,        \* instance id -> the fields of one FakeS3 object
    uuidCount,  \* number of cuuid() values drawn so far
    now,        \* Date.now(), in units of 50 milliseconds
    req,        \* the call or HTTP request handled last
    resp,       \* its outcome (HTTP response or return value)
    disk,       \* the file system: directories and files
    wait,       \* the waitForFiles() call in progress, if any
    walk,       \* an S3 client paging through one listing
    conns       \* the HTTP requests whose bodies are arriving

vars == <<srv, uuidCount, now, req, resp, disk, wait, walk, conns>>

(***************************************************************************)
(* Bounds of the model.                                                    *)
(***************************************************************************)
MaxObjects == 3     \* objects per bucket
MaxTokens == 3      \* continuation tokens minted in one behaviour
MaxTime == 6        \* last clock value
MaxFiles == 3       \* cache files written in one behaviour
MaxConns == 2       \* HTTP requests in flight at once

(***************************************************************************)
(* Strings.                                                                *)
(***************************************************************************)
\* UTF-16 code units of the characters used, as JavaScript compares them
Ord == [c \in {"%", "-", "/", "0", "1", "2", "5", "9", "F", "a", "b", "x"} |->
          CASE c = "%" -> 37 [] c = "-" -> 45 [] c = "/" -> 47
            [] c = "0" -> 48 [] c = "1" -> 49 [] c = "2" -> 50
            [] c = "5" -> 53 [] c = "9" -> 57 [] c = "F" -> 70
            [] c = "a" -> 97 [] c = "b" -> 98 [] c = "x" -> 120]

Min(a, b) == IF a < b THEN a ELSE b
Max(a, b) == IF a > b THEN a ELSE b

\* a < b on JavaScript strings
StrLess(a, b) ==
    \E i \in 1..(Min(Len(a), Len(b)) + 1) :
        /\ \A j \in 1..(i - 1) : a[j] = b[j]
        /\ \/ i = Len(a) + 1 /\ i <= Len(b)
           \/ i <= Len(a) /\ i <= Len(b) /\ Ord[a[i]] < Ord[b[i]]

\* s.startsWith(p)
StartsWith(s, p) ==
    /\ Len(p) <= Len(s)
    /\ \A i \in 1..Len(p) : s[i] = p[i]

\* arr.slice(start, end) with JavaScript's treatment of negative and
\* out-of-range indices (0-based, end exclusive)
JsSlice(arr, start, end) ==
    LET n == Len(arr)
        from == IF start < 0 THEN Max(n + start, 0) ELSE Min(start, n)
        to == IF end < 0 THEN Max(n + end, 0) ELSE Min(end, n)
    IN IF from >= to THEN <<>> ELSE SubSeq(arr, from + 1, to)

\* s.slice(n) for n >= 0
StrDrop(s, n) == JsSlice(s, n, Len(s))

\* 1-based position of the first occurrence of d in s, 0 when there is none
IndexOf(s, d) ==
    LET hits == {i \in 1..(Len(s) - Len(d) + 1) :
                    \A j \in 1..Len(d) : s[i + j - 1] = d[j]}
    IN IF hits = {} THEN 0 ELSE CHOOSE i \in hits : \A k \in hits : i <= k

\* s.split(d) for a non-empty separator d
RECURSIVE Split(_, _)
Split(s, d) ==
    LET cut(i) == IF i = 0 THEN <<s>>
                  ELSE <<SubSeq(s, 1, i - 1)>>
                           \o Split(StrDrop(s, i + Len(d) - 1), d)
    IN cut(IndexOf(s, d))

\* parts.join(d)
RECURSIVE Join(_, _)
Join(parts, d) ==
    IF Len(parts) = 0 THEN <<>>
    ELSE IF Len(parts) = 1 THEN parts[1]
    ELSE parts[1] \o d \o Join(Tail(parts), d)

Digits == {"0", "1", "2", "5", "9"}
DigitVal(c) == Ord[c] - 48

\* parseInt(s, 10): an optional sign, then the longest run of digits;
\* NaN when there is no digit
RECURSIVE DigitsValue(_, _)
DigitsValue(s, acc) ==
    IF Len(s) = 0 \/ s[1] \notin Digits THEN acc
    ELSE DigitsValue(Tail(s), 10 * acc + DigitVal(s[1]))

parseInt(s) ==
    LET parse(neg, body) ==
            IF Len(body) = 0 \/ body[1] \notin Digits
            THEN [nan |-> TRUE, val |-> 0]
            ELSE [nan |-> FALSE,
                  val |-> IF neg THEN 0 - DigitsValue(body, 0)
                          ELSE DigitsValue(body, 0)]
    IN IF Len(s) > 0 /\ s[1] = "-" THEN parse(TRUE, Tail(s))
       ELSE parse(FALSE, s)

\* encodeURIComponent(s): unreserved characters are kept, the others
\* percent-encoded
encodeURIComponent(s) ==
    LET enc(c) == IF c = "/" THEN <<"%", "2", "F">>
                  ELSE IF c = "%" THEN <<"%", "2", "5">>
                  ELSE <<c>>
        RECURSIVE go(_)
        go(t) == IF Len(t) = 0 THEN <<>> ELSE enc(t[1]) \o go(Tail(t))
    IN go(s)

(***************************************************************************)
(* JavaScript Map: insertion-ordered, set() on a present key keeps its     *)
(* position.                                                               *)
(***************************************************************************)
MapHas(m, k) == \E i \in 1..Len(m) : m[i].k = k
MapIndex(m, k) == CHOOSE i \in 1..Len(m) : m[i].k = k
MapGet(m, k) == m[MapIndex(m, k)].v
MapSet(m, k, v) ==
    IF MapHas(m, k) THEN [m EXCEPT ![MapIndex(m, k)] = [k |-> k, v |-> v]]
    ELSE Append(m, [k |-> k, v |-> v])

MapDelete(m, k) == SelectSeq(m, LAMBDA e : e.k # k)
MapKeys(m) == [i \in 1..Len(m) |-> m[i].k]
MapValues(m) == [i \in 1..Len(m) |-> m[i].v]

SeqToSet(s) == {s[i] : i \in 1..Len(s)}

(***************************************************************************)
(* Names used by the code.                                                 *)
(***************************************************************************)
DEFAULT == <<"d", "e", "f", "a", "u", "l", "t">>       \* 'default'
BUCKETS == <<"b", "u", "c", "k", "e", "t", "s">>       \* 'buckets'
OBJECTS == <<"o", "b", "j", "e", "c", "t", "s">>       \* 'objects'
JSONEXT == <<".", "j", "s", "o", "n">>                 \* '.json'
CREDENTIAL == <<"C", "r", "e", "d", "e", "n", "t", "i", "a", "l", "=">>
SLASH == <<"/">>

\* JavaScript's undefined, where a record is expected
Undefined == [undefined |-> TRUE]
Null == [null |-> TRUE]

DefaultMaxKeys == 1000
\* The clock counts units of 50 ms.
DefaultWaitTimeout == 100   \* 5 * 1000 ms
SleepTime == 2              \* sleep(100)

(***************************************************************************)
(* Errors.  A plain Error has no code; _buildError renders it as           *)
(* InternalError.                                                          *)
(***************************************************************************)
\* mutant: a plain error carries a code of its own
Error_Coded(text) ==
    [message |-> [text |-> text, method |-> "", url |-> <<>>],
     code |-> "InvalidURI", resource |-> <<>>]

Error(text) == [message |-> [text |-> text, method |-> "", url |-> <<>>],
                code |-> "", resource |-> <<>>]

\* mutant: the error carries no code
NoSuchBucketError_NoCode(text, bucket) ==
    [message |-> [text |-> text, method |-> "", url |-> <<>>],
     code |-> "", resource |-> bucket]

NoSuchBucketError(text, bucket) ==
    [message |-> [text |-> text, method |-> "", url |-> <<>>],
     code |-> "NoSuchBucket", resource |-> bucket]

(***************************************************************************)
(* S3Object, CommonPrefix, S3Bucket.                                       *)
(***************************************************************************)
S3Object(bucket, key, content, lastModified, md5, contentLength) ==
    [type |-> "s3-object", bucket |-> bucket, key |-> key,
     content |-> content, lastModified |-> lastModified, md5 |-> md5,
     contentLength |-> contentLength]

CommonPrefix(prefix) == [type |-> "s3-common-prefix", prefix |-> prefix]

NewS3Bucket == [objects |-> <<>>]

\* mutant: the object is not stored
addObject_Drop(bucket, obj) == bucket

\* mutant: the bucket keeps a list of objects and pushes the new one
addObject_Push(bucket, obj) ==
    [bucket EXCEPT !.objects = Append(bucket.objects,
                                      [k |-> obj.key, v |-> obj])]

addObject(bucket, obj) ==
    [bucket EXCEPT !.objects = MapSet(bucket.objects, obj.key, obj)]

getObjects(bucket) == MapValues(bucket.objects)

\* crypto.createHash('md5').update(buf).digest('hex'): a digest standing
\* for the bytes, distinct for distinct contents and never equal to them
Md5(buf) == <<"#">> \o buf

\* new Date().toISOString()
toISOString(t) == [iso |-> t]

(***************************************************************************)
(* FakeS3: construction and the bucket namespace.                          *)
(***************************************************************************)
NewFakeS3(options) ==
    [prefix |-> options.prefix,
     initialBuckets |-> options.buckets,
     cachePath |-> options.cachePath,
     waitTimeout |-> IF options.waitTimeout = 0 THEN DefaultWaitTimeout
                     ELSE options.waitTimeout,
     start |-> options.start,
     touchedCache |-> FALSE,
     knownCaches |-> <<>>,
     hostPort |-> Null,
     profiles |-> <<>>,
     bucketOwnerInfo |-> <<>>,
     tokens |-> <<>>]

\* mutant: the 'default' profile is created for an empty list too
setupBuckets_Always(s) ==
    LET RECURSIVE fill(_, _)
        fill(m, names) ==
            IF Len(names) = 0 THEN m
            ELSE fill(MapSet(m, names[1], NewS3Bucket), Tail(names))
    IN [s EXCEPT !.profiles =
           MapSet(s.profiles, DEFAULT, fill(<<>>, s.initialBuckets))]

setupBuckets(s) ==
    IF Len(s.initialBuckets) = 0 THEN s
    ELSE LET RECURSIVE fill(_, _)
             fill(m, names) ==
                 IF Len(names) = 0 THEN m
                 ELSE fill(MapSet(m, names[1], NewS3Bucket), Tail(names))
         IN [s EXCEPT !.profiles =
                MapSet(s.profiles, DEFAULT, fill(<<>>, s.initialBuckets))]

\* mutant: the owner first recorded for a bucket name is kept
populateBuckets_FirstOwner(s, accessKeyId, buckets) ==
    LET RECURSIVE fill(_, _)
        fill(st, bs) ==
            IF Len(bs) = 0 THEN st
            ELSE fill([map |-> MapSet(st.map, bs[1].Name, NewS3Bucket),
                       own |-> IF MapHas(st.own, bs[1].Name) THEN st.own
                               ELSE MapSet(st.own, bs[1].Name,
                                           buckets.Owner)],
                      Tail(bs))
        store(out) ==
            [s EXCEPT !.profiles = MapSet(s.profiles, accessKeyId, out.map),
                      !.bucketOwnerInfo = out.own]
    IN store(fill([map |-> IF MapHas(s.profiles, accessKeyId)
                           THEN MapGet(s.profiles, accessKeyId) ELSE <<>>,
                   own |-> s.bucketOwnerInfo],
                  buckets.Buckets))

\* buckets: [Buckets |-> sequence of [Name], Owner |-> owner]
populateBuckets(s, accessKeyId, buckets) ==
    LET RECURSIVE fill(_, _)
        fill(st, bs) ==
            IF Len(bs) = 0 THEN st
            ELSE fill([map |-> MapSet(st.map, bs[1].Name, NewS3Bucket),
                       own |-> MapSet(st.own, bs[1].Name, buckets.Owner)],
                      Tail(bs))
        store(out) ==
            [s EXCEPT !.profiles = MapSet(s.profiles, accessKeyId, out.map),
                      !.bucketOwnerInfo = out.own]
    IN store(fill([map |-> IF MapHas(s.profiles, accessKeyId)
                           THEN MapGet(s.profiles, accessKeyId) ELSE <<>>,
                   own |-> s.bucketOwnerInfo],
                  buckets.Buckets))

\* mutant: the fingerprint is computed from the (empty) content
cachedObject_Md5OfContent(bucketName, c) ==
    S3Object(bucketName, c.Key, <<>>, c.LastModified, Md5(<<>>), c.Size)

\* new S3Object(bucketName, c.Key, '', c.LastModified, c.ETag, c.Size)
cachedObject(bucketName, c) ==
    S3Object(bucketName, c.Key, <<>>, c.LastModified, c.ETag, c.Size)

\* mutant: a listing for an unknown profile or bucket is skipped in silence
populateObjects_Silent(s, accessKeyId, bucketName, objects) ==
    LET RECURSIVE fill(_, _)
        fill(b, cs) ==
            IF Len(cs) = 0 THEN b
            ELSE fill(addObject(b, cachedObject(bucketName, cs[1])),
                      Tail(cs))
        load(bucketMap) ==
            IF ~MapHas(bucketMap, bucketName)
            THEN [ok |-> TRUE, err |-> Error(""), s |-> s]
            ELSE [ok |-> TRUE, err |-> Error(""),
                  s |-> [s EXCEPT !.profiles =
                           MapSet(s.profiles, accessKeyId,
                               MapSet(bucketMap, bucketName,
                                   fill(MapGet(bucketMap, bucketName),
                                        objects.Contents)))]]
    IN IF ~MapHas(s.profiles, accessKeyId)
       THEN [ok |-> TRUE, err |-> Error(""), s |-> s]
       ELSE load(MapGet(s.profiles, accessKeyId))

\* objects: [Contents |-> sequence of [Key, LastModified, ETag, Size]]
populateObjects(s, accessKeyId, bucketName, objects) ==
    LET RECURSIVE fill(_, _)
        fill(b, cs) ==
            IF Len(cs) = 0 THEN b
            ELSE fill(addObject(b, cachedObject(bucketName, cs[1])),
                      Tail(cs))
        load(bucketMap) ==
            IF ~MapHas(bucketMap, bucketName)
            THEN [ok |-> FALSE, err |-> Error("invalid bucketName"), s |-> s]
            ELSE [ok |-> TRUE, err |-> Error(""),
                  s |-> [s EXCEPT !.profiles =
                           MapSet(s.profiles, accessKeyId,
                               MapSet(bucketMap, bucketName,
                                   fill(MapGet(bucketMap, bucketName),
                                        objects.Contents)))]]
    IN IF ~MapHas(s.profiles, accessKeyId)
       THEN [ok |-> FALSE, err |-> Error("invalid accessKeyId"), s |-> s]
       ELSE load(MapGet(s.profiles, accessKeyId))

\* mutant: the last profile that has a bucket of that name
_findBucket_Last(s, bucketName) ==
    LET last(hits) ==
            IF hits = {} THEN [found |-> FALSE, bucket |-> NewS3Bucket]
            ELSE [found |-> TRUE,
                  bucket |-> MapGet(s.profiles[CHOOSE i \in hits :
                                        \A j \in hits : i >= j].v,
                                    bucketName)]
    IN last({i \in 1..Len(s.profiles) :
                MapHas(s.profiles[i].v, bucketName)})

\* the first profile, in creation order, that has a bucket of that name
_findBucket(s, bucketName) ==
    LET first(hits) ==
            IF hits = {} THEN [found |-> FALSE, bucket |-> NewS3Bucket]
            ELSE [found |-> TRUE,
                  bucket |-> MapGet(s.profiles[CHOOSE i \in hits :
                                        \A j \in hits : i <= j].v,
                                    bucketName)]
    IN first({i \in 1..Len(s.profiles) :
                 MapHas(s.profiles[i].v, bucketName)})

\* mutant: every object of the bucket is returned
getFiles_Unfiltered(s, bucket) ==
    LET filter(s3bucket) ==
            IF ~s3bucket.found THEN [objects |-> <<>>]
            ELSE [objects |-> getObjects(s3bucket.bucket)]
    IN filter(_findBucket(s, bucket))

getFiles(s, bucket) ==
    LET filter(s3bucket) ==
            IF ~s3bucket.found THEN [objects |-> <<>>]
            ELSE [objects |-> SelectSeq(getObjects(s3bucket.bucket),
                                  LAMBDA o : StartsWith(o.key, s.prefix))]
    IN filter(_findBucket(s, bucket))

(***************************************************************************)
(* The file system and the cache directory.  A path is a sequence of       *)
(* names; the disk is [dirs |-> set of paths, files |-> function from the  *)
(* paths of the files to their contents].  The content of a JSON file is   *)
(* the value JSON.parse reads back from it: a Date has become its ISO      *)
(* string.                                                                 *)
(***************************************************************************)
Parent(path) == SubSeq(path, 1, Len(path) - 1)
IsFile(d, path) == path \in DOMAIN d.files

\* fs.mkdir
mkdir(d, path) ==
    IF path \in d.dirs \/ IsFile(d, path)
    THEN [ok |-> FALSE, code |-> "EEXIST", d |-> d]
    ELSE IF Parent(path) \notin d.dirs
    THEN [ok |-> FALSE,
          code |-> IF IsFile(d, Parent(path)) THEN "ENOTDIR"
                   ELSE "ENOENT",
          d |-> d]
    ELSE [ok |-> TRUE, code |-> "", d |-> [d EXCEPT !.dirs = @ \cup {path}]]

\* mutant: an existing directory is an error
tryMkdir_Strict(d, path) == mkdir(d, path)

tryMkdir(d, path) ==
    LET swallow(m) ==
            IF ~m.ok /\ m.code = "EEXIST"
            THEN [ok |-> TRUE, code |-> "", d |-> d]
            ELSE m
    IN swallow(mkdir(d, path))

\* fs.writeFile
writeFile(d, path, data) ==
    IF path \in d.dirs THEN [ok |-> FALSE, code |-> "EISDIR", d |-> d]
    ELSE IF Parent(path) \notin d.dirs
    THEN [ok |-> FALSE,
          code |-> IF IsFile(d, Parent(path)) THEN "ENOTDIR"
                   ELSE "ENOENT",
          d |-> d]
    ELSE [ok |-> TRUE, code |-> "",
          d |-> [d EXCEPT !.files =
                    [q \in DOMAIN @ \cup {path} |->
                        IF q = path THEN data ELSE @[q]]]]

\* fs.readdir: the names in the directory, in one of the orders the file
\* system may give them (ascending when rev is FALSE, descending otherwise)
readdir(d, path, rev) ==
    LET names == {p[Len(p)] : p \in {q \in d.dirs \cup DOMAIN d.files :
                                         Len(q) = Len(path) + 1
                                             /\ Parent(q) = path}}
        RECURSIVE order(_)
        order(S) ==
            IF S = {} THEN <<>>
            ELSE LET m == CHOOSE x \in S : \A y \in S \ {x} :
                              IF rev THEN StrLess(y, x) ELSE StrLess(x, y)
                 IN <<m>> \o order(S \ {m})
    IN IF path \notin d.dirs
       THEN [ok |-> FALSE,
             code |-> IF IsFile(d, path) THEN "ENOTDIR" ELSE "ENOENT",
             names |-> <<>>]
       ELSE [ok |-> TRUE, code |-> "", names |-> order(names)]

\* Date.prototype.toJSON
toJSON(date) == [iso |-> date.date]

touchCache(s, filePath) ==
    [s EXCEPT !.touchedCache = TRUE,
              !.knownCaches = IF filePath \in SeqToSet(@) THEN @
                              ELSE Append(@, filePath)]

\* buckets: the result of listBuckets(),
\*   [Buckets |-> sequence of [Name, CreationDate], Owner |-> owner]
cacheBucketsToDisk(s, d, filePath, accessKeyId, buckets) ==
    LET result(m) == [ok |-> m.ok, err |-> m.code,
                      s |-> touchCache(s, filePath), d |-> m.d]
        write(m) ==
            IF ~m.ok THEN m
            ELSE writeFile(m.d,
                     filePath \o <<BUCKETS, accessKeyId \o JSONEXT>>,
                     [type |-> "cached-buckets",
                      data |-> [buckets EXCEPT !.Buckets =
                                  [i \in 1..Len(@) |->
                                      [@[i] EXCEPT !.CreationDate =
                                                       toJSON(@)]]],
                      accessKeyId |-> accessKeyId])
        sub(m) == IF ~m.ok THEN m ELSE tryMkdir(m.d, filePath \o <<BUCKETS>>)
    IN result(write(sub(tryMkdir(d, filePath))))

\* objects: the result of listObjectsV2(),
\*   [Contents |-> sequence of [Key, LastModified, ETag, Size, StorageClass]]
cacheObjectsToDisk(s, d, filePath, accessKeyId, bucketName, objects) ==
    LET result(m) == [ok |-> m.ok, err |-> m.code,
                      s |-> touchCache(s, filePath), d |-> m.d]
        write(m, key) ==
            IF ~m.ok THEN m
            ELSE writeFile(m.d,
                     filePath \o <<OBJECTS, key, accessKeyId \o JSONEXT>>,
                     [type |-> "cached-objects",
                      bucketName |-> bucketName,
                      accessKeyId |-> accessKeyId,
                      objects |-> [objects EXCEPT !.Contents =
                                     [i \in 1..Len(@) |->
                                         [@[i] EXCEPT !.LastModified =
                                                          toJSON(@)]]]])
        sub2(m, key) ==
            IF ~m.ok THEN m ELSE tryMkdir(m.d, filePath \o <<OBJECTS, key>>)
        sub1(m) == IF ~m.ok THEN m ELSE tryMkdir(m.d, filePath \o <<OBJECTS>>)
        steps(key) ==
            result(write(sub2(sub1(tryMkdir(d, filePath)), key), key))
    IN steps(encodeURIComponent(bucketName))

\* mutant: a missing objects directory is an error
populateFromCache_Strict(s, d, filePath, rev) ==
    LET RECURSIVE loadBuckets(_, _), loadObjects(_, _), loadDirs(_, _)
        loadBuckets(st, names) ==
            IF Len(names) = 0 THEN st
            ELSE LET load(buckets) ==
                         populateBuckets(st, buckets.accessKeyId, buckets.data)
                 IN loadBuckets(
                        load(d.files[filePath \o <<BUCKETS, names[1]>>]),
                        Tail(names))
        loadObjects(out, paths) ==
            IF ~out.ok \/ Len(paths) = 0 THEN out
            ELSE LET load(info) ==
                         populateObjects(out.s, info.accessKeyId,
                                         info.bucketName, info.objects)
                 IN loadObjects(load(d.files[paths[1]]), Tail(paths))
        loadDirs(out, dirs) ==
            IF ~out.ok \/ Len(dirs) = 0 THEN out
            ELSE LET files(ls) ==
                         IF ~ls.ok
                         THEN [ok |-> FALSE, err |-> Error(ls.code),
                               s |-> out.s]
                         ELSE loadObjects(out,
                                  [i \in 1..Len(ls.names) |->
                                      filePath \o <<OBJECTS, dirs[1],
                                                    ls.names[i]>>])
                 IN loadDirs(files(readdir(d, filePath \o <<OBJECTS, dirs[1]>>,
                                           rev)),
                             Tail(dirs))
        objects(st, ls) ==
            IF ~ls.ok
            THEN [ok |-> FALSE, err |-> Error(ls.code), s |-> st]
            ELSE loadDirs([ok |-> TRUE, err |-> Error(""), s |-> st],
                          ls.names)
        buckets(ls) ==
            IF ~ls.ok /\ ls.code # "ENOENT"
            THEN [ok |-> FALSE, err |-> Error(ls.code), s |-> s]
            ELSE objects(loadBuckets(s, ls.names),
                         readdir(d, filePath \o <<OBJECTS>>, rev))
    IN buckets(readdir(d, filePath \o <<BUCKETS>>, rev))

\* the loads stop at the first error, which the caller receives
populateFromCache(s, d, filePath, rev) ==
    LET RECURSIVE loadBuckets(_, _), loadObjects(_, _), loadDirs(_, _)
        loadBuckets(st, names) ==
            IF Len(names) = 0 THEN st
            ELSE LET load(buckets) ==
                         populateBuckets(st, buckets.accessKeyId, buckets.data)
                 IN loadBuckets(
                        load(d.files[filePath \o <<BUCKETS, names[1]>>]),
                        Tail(names))
        loadObjects(out, paths) ==
            IF ~out.ok \/ Len(paths) = 0 THEN out
            ELSE LET load(info) ==
                         populateObjects(out.s, info.accessKeyId,
                                         info.bucketName, info.objects)
                 IN loadObjects(load(d.files[paths[1]]), Tail(paths))
        loadDirs(out, dirs) ==
            IF ~out.ok \/ Len(dirs) = 0 THEN out
            ELSE LET files(ls) ==
                         IF ~ls.ok
                         THEN [ok |-> FALSE, err |-> Error(ls.code),
                               s |-> out.s]
                         ELSE loadObjects(out,
                                  [i \in 1..Len(ls.names) |->
                                      filePath \o <<OBJECTS, dirs[1],
                                                    ls.names[i]>>])
                 IN loadDirs(files(readdir(d, filePath \o <<OBJECTS, dirs[1]>>,
                                           rev)),
                             Tail(dirs))
        objects(st, ls) ==
            IF ~ls.ok
            THEN [ok |-> ls.code = "ENOENT", err |-> Error(ls.code), s |-> st]
            ELSE loadDirs([ok |-> TRUE, err |-> Error(""), s |-> st],
                          ls.names)
        buckets(ls) ==
            IF ~ls.ok /\ ls.code # "ENOENT"
            THEN [ok |-> FALSE, err |-> Error(ls.code), s |-> s]
            ELSE objects(loadBuckets(s, ls.names),
                         readdir(d, filePath \o <<OBJECTS>>, rev))
    IN buckets(readdir(d, filePath \o <<BUCKETS>>, rev))

\* bootstrap once the HTTP server listens
bootstrap(s, d, rev) ==
    LET cache(set) ==
            IF set.cachePath # <<>>
            THEN populateFromCache(set, d, set.cachePath, rev)
            ELSE [ok |-> TRUE, err |-> Error(""), s |-> set]
    IN cache(setupBuckets([s EXCEPT !.hostPort = [host |-> "localhost",
                                                  port |-> 1]]))

(***************************************************************************)
(* waitForFiles.  The call in progress is                                  *)
(*   [pc, bucket, count, started, deadline, wake, result, ended]           *)
(* with pc "idle" (no call), "sleeping" (in await sleep(100)) or "done";   *)
(* result is null or the value of getFiles.                                *)
(***************************************************************************)
\* mutant: the deadline is the time of the call
deadlineOf_Now(s, t) == t

\* const deadline = Date.now() + this.waitTimeout
deadlineOf(s, t) == t + s.waitTimeout

\* mutant: the loop returns as soon as at least count files are there
reached_AtLeast(info, count) == Len(info.objects) >= count

\* info.objects.length === count
reached(info, count) == Len(info.objects) = count

\* one turn of the loop at time t: the test of the deadline, the poll and
\* either the return or the start of sleep(100)
waitLoop(s, w, t) ==
    LET poll(info) ==
            IF reached(info, w.count)
            THEN [w EXCEPT !.pc = "done", !.result = info, !.ended = t]
            ELSE [w EXCEPT !.pc = "sleeping", !.wake = t + SleepTime]
    IN IF t <= w.deadline THEN poll(getFiles(s, w.bucket))
       ELSE [w EXCEPT !.pc = "done", !.result = Null, !.ended = t]

\* the call up to its first await
waitForFiles(s, bucket, count, t) ==
    waitLoop(s, [pc |-> "sleeping", bucket |-> bucket, count |-> count,
                 started |-> t, deadline |-> deadlineOf(s, t), wake |-> 0,
                 result |-> Undefined, ended |-> 0], t)

(***************************************************************************)
(* HTTP requests.  A request is                                            *)
(*   [method, pathname, query, headers, body]                              *)
(* with query = [prefix, delimiter, maxKeys, startAfter,                   *)
(* continuationToken, uploadId] and headers = [authorization, copySource]; *)
(* an absent parameter or header is <<>>.                                  *)
(***************************************************************************)
NoQuery == [prefix |-> <<>>, delimiter |-> <<>>, maxKeys |-> <<>>,
            startAfter |-> <<>>, continuationToken |-> <<>>,
            uploadId |-> <<>>]

\* mutant: the query string is left out
Url_PathOnly(r) == [pathname |-> r.pathname, query |-> NoQuery]

\* req.url: the path name followed by the query string, if any
Url(r) == [pathname |-> r.pathname, query |-> r.query]

\* authHeader.match(/Credential=([\w-/0-9a-zA-Z]+),/): the first
\* 'Credential=' followed by one or more word, '-' or '/' characters and
\* a comma; match[0].slice(11).split('/')[0] is the access key id
stripCreds(authHeader) ==
    LET accessKey(rest, comma) ==
            IF comma <= 1 THEN [match |-> FALSE, accessKeyId |-> <<>>]
            ELSE [match |-> TRUE,
                  accessKeyId |-> Split(SubSeq(rest, 1, comma), SLASH)[1]]
        after(rest) == accessKey(rest, IndexOf(rest, <<",">>))
        from(i) == IF i = 0 THEN [match |-> FALSE, accessKeyId |-> <<>>]
                   ELSE after(StrDrop(authHeader, i + Len(CREDENTIAL) - 1))
    IN from(IndexOf(authHeader, CREDENTIAL))

\* mutant: an unknown access key id resolves to no profile
_getBucketsMap_NoFallback(s, r) ==
    LET lookup(profile) ==
            IF MapHas(s.profiles, profile)
            THEN [defined |-> TRUE, profile |-> profile,
                  map |-> MapGet(s.profiles, profile)]
            ELSE [defined |-> FALSE, profile |-> <<>>, map |-> <<>>]
        resolve(m) == lookup(IF m.match THEN m.accessKeyId ELSE DEFAULT)
    IN resolve(stripCreds(r.headers.authorization))

_getBucketsMap(s, r) ==
    LET lookup(profile) ==
            IF MapHas(s.profiles, profile)
            THEN [defined |-> TRUE, profile |-> profile,
                  map |-> MapGet(s.profiles, profile)]
            ELSE IF MapHas(s.profiles, DEFAULT)
            THEN [defined |-> TRUE, profile |-> DEFAULT,
                  map |-> MapGet(s.profiles, DEFAULT)]
            ELSE [defined |-> FALSE, profile |-> <<>>, map |-> <<>>]
        resolve(m) == lookup(IF m.match THEN m.accessKeyId ELSE DEFAULT)
    IN resolve(stripCreds(r.headers.authorization))

\* mutant: an upload writes into the profile of its credentials
PutProfile_Resolved(s, r) == _getBucketsMap(s, r)

\* the profile an upload writes into
PutProfile(s, r) ==
    IF MapHas(s.profiles, DEFAULT)
    THEN [defined |-> TRUE, profile |-> DEFAULT,
          map |-> MapGet(s.profiles, DEFAULT)]
    ELSE [defined |-> FALSE, profile |-> <<>>, map |-> <<>>]

\* mutant: the header and the parameter are looked at before the path
putChecks_HeadersFirst(r, parts) ==
    IF r.headers.copySource # <<>> THEN "copyObject() not supported"
    ELSE IF r.query.uploadId # <<>> THEN "putObjectMultipart not supported"
    ELSE IF Len(parts) < 3 \/ parts[1] # <<>>
    THEN "invalid url, expected /:bucket/:key"
    ELSE ""

\* the checks of a PUT before the bucket lookup: the message of the first
\* one that fails, '' when all pass
putChecks(r, parts) ==
    IF Len(parts) < 3 \/ parts[1] # <<>>
    THEN "invalid url, expected /:bucket/:key"
    ELSE IF r.headers.copySource # <<>> THEN "copyObject() not supported"
    ELSE IF r.query.uploadId # <<>> THEN "putObjectMultipart not supported"
    ELSE ""

_handlePutObject(s, r, t) ==
    LET fail(e) == [ok |-> FALSE, err |-> e, s |-> s, obj |-> Undefined]
        store(bucketsMap, bucket, obj) ==
            [ok |-> TRUE, err |-> Error(""), obj |-> obj,
             s |-> [s EXCEPT !.profiles =
                      MapSet(s.profiles, bucketsMap.profile,
                          MapSet(bucketsMap.map, bucket,
                              addObject(MapGet(bucketsMap.map, bucket),
                                        obj)))]]
        put(bucketsMap, bucket, key) ==
            IF ~bucketsMap.defined \/ ~MapHas(bucketsMap.map, bucket)
            THEN fail(NoSuchBucketError(
                          "The specified bucket does not exist", bucket))
            ELSE store(bucketsMap, bucket,
                       S3Object(bucket, key, r.body, toISOString(t),
                                Md5(r.body), Len(r.body)))
        handle(parts) ==
            IF putChecks(r, parts) # ""
            THEN fail(Error(putChecks(r, parts)))
            ELSE put(PutProfile(s, r), parts[2],
                     Join(SubSeq(parts, 3, Len(parts)), SLASH))
    IN handle(Split(r.pathname, SLASH))

\* mutant: the owner reported is the one of the last bucket
_handleListBuckets_LastOwner(s, r) ==
    LET render(buckets, ownerInfo) ==
            [Buckets |-> [i \in 1..Len(buckets) |->
                             [Name |-> buckets[i],
                              CreationDate |-> s.start]],
             Owner |-> [DisplayName |-> IF ownerInfo # Undefined
                                        THEN ownerInfo.DisplayName
                                        ELSE "admin",
                        ID |-> IF ownerInfo # Undefined THEN ownerInfo.ID
                               ELSE "1"]]
        owner(buckets) ==
            render(buckets,
                   IF Len(buckets) > 0
                          /\ MapHas(s.bucketOwnerInfo, buckets[Len(buckets)])
                   THEN MapGet(s.bucketOwnerInfo, buckets[Len(buckets)])
                   ELSE Undefined)
        list(bucketsMap) ==
            owner(IF bucketsMap.defined THEN MapKeys(bucketsMap.map)
                  ELSE <<>>)
    IN list(_getBucketsMap(s, r))

_handleListBuckets(s, r) ==
    LET render(buckets, ownerInfo) ==
            [Buckets |-> [i \in 1..Len(buckets) |->
                             [Name |-> buckets[i],
                              CreationDate |-> s.start]],
             Owner |-> [DisplayName |-> IF ownerInfo # Undefined
                                        THEN ownerInfo.DisplayName
                                        ELSE "admin",
                        ID |-> IF ownerInfo # Undefined THEN ownerInfo.ID
                               ELSE "1"]]
        owner(buckets) ==
            render(buckets,
                   IF Len(buckets) > 0
                          /\ MapHas(s.bucketOwnerInfo, buckets[1])
                   THEN MapGet(s.bucketOwnerInfo, buckets[1])
                   ELSE Undefined)
        list(bucketsMap) ==
            owner(IF bucketsMap.defined THEN MapKeys(bucketsMap.map)
                  ELSE <<>>)
    IN list(_getBucketsMap(s, r))

(***************************************************************************)
(* The listing engine.                                                     *)
(***************************************************************************)
\* mutant: every draw returns the same id
cuuid_Same(n) == <<"u">>

\* cuuid(): Date.now() and two Math.random() draws in hexadecimal; the
\* n-th value drawn is distinct from all earlier ones
cuuid(n) == [i \in 1..n |-> "u"]

\* objects.sort((a, b) => a.key < b.key ? -1 : 1)
compare(a, b) == IF StrLess(a.key, b.key) THEN 0 - 1 ELSE 1

RECURSIVE insertSorted(_, _)
insertSorted(sorted, o) ==
    IF Len(sorted) = 0 THEN <<o>>
    ELSE IF compare(o, sorted[1]) < 0 THEN <<o>> \o sorted
    ELSE <<sorted[1]>> \o insertSorted(Tail(sorted), o)

\* mutant: the objects are listed in the order of the Map
sort_Unsorted(objects) == objects

RECURSIVE sort(_)
sort(objects) ==
    IF Len(objects) = 0 THEN <<>>
    ELSE insertSorted(sort(SubSeq(objects, 1, Len(objects) - 1)),
                      objects[Len(objects)])

RECURSIVE splitLoop(_, _, _, _, _)
splitLoop(objects, delimiter, prefix, prefixSet, out) ==
    LET step(obj, parts) ==
            IF Len(parts) = 1
            THEN splitLoop(Tail(objects), delimiter, prefix, prefixSet,
                           Append(out, obj))
            ELSE IF (parts[1] \o delimiter) \in prefixSet
            THEN splitLoop(Tail(objects), delimiter, prefix, prefixSet, out)
            ELSE splitLoop(Tail(objects), delimiter, prefix,
                           prefixSet \cup {parts[1] \o delimiter},
                           Append(out, CommonPrefix(
                                      prefix \o parts[1] \o delimiter)))
    IN IF Len(objects) = 0 THEN out
       ELSE step(objects[1],
                 Split(IF prefix # <<>>
                       THEN StrDrop(objects[1].key, Len(prefix))
                       ELSE objects[1].key, delimiter))

\* mutant: the common prefixes are gathered after the plain entries
splitObjects_Grouped(objects, delimiter, prefix) ==
    LET grouped(all) ==
            SelectSeq(all, LAMBDA o : o.type = "s3-object")
                \o SelectSeq(all, LAMBDA o : o.type # "s3-object")
    IN grouped(splitLoop(objects, delimiter, prefix, {}, <<>>))

\* mutant: the prefix is not stripped before the key is split
splitObjects_KeepPrefix(objects, delimiter, prefix) ==
    splitLoop(objects, delimiter, <<>>, {}, <<>>)

splitObjects(objects, delimiter, prefix) ==
    splitLoop(objects, delimiter, prefix, {}, <<>>)

\* mutant: a common prefix matches the start-after keys it covers
findIndex_Folded(rawObjects, startAfter) ==
    LET hits == {i \in 1..Len(rawObjects) :
                    IF rawObjects[i].type = "s3-common-prefix"
                    THEN StartsWith(startAfter, rawObjects[i].prefix)
                    ELSE rawObjects[i].key = startAfter}
    IN IF hits = {} THEN 0 ELSE CHOOSE i \in hits : \A j \in hits : i <= j

\* rawObjects.findIndex(o => o.type !== 's3-common-prefix' &&
\* o.key === startAfter), 1-based, 0 when there is none
\* mutant: the entry with the start-after key is kept
findIndex_Inclusive(rawObjects, startAfter) ==
    LET hits == {i \in 1..Len(rawObjects) :
                    /\ rawObjects[i].type # "s3-common-prefix"
                    /\ rawObjects[i].key = startAfter}
    IN IF hits = {} THEN 0
       ELSE (CHOOSE i \in hits : \A j \in hits : i <= j) - 1

findIndex(rawObjects, startAfter) ==
    LET hits == {i \in 1..Len(rawObjects) :
                    /\ rawObjects[i].type # "s3-common-prefix"
                    /\ rawObjects[i].key = startAfter}
    IN IF hits = {} THEN 0 ELSE CHOOSE i \in hits : \A j \in hits : i <= j

\* the page size: 1000, lowered by a smaller max-keys
pageSize(query) ==
    LET lower(queryMaxKeys) ==
            IF ~queryMaxKeys.nan /\ queryMaxKeys.val < DefaultMaxKeys
            THEN queryMaxKeys.val ELSE DefaultMaxKeys
    IN IF query.maxKeys # <<>> THEN lower(parseInt(query.maxKeys))
       ELSE DefaultMaxKeys

\* the start-after key in force: the one of the token if it has one
startAfterOf(query, tokenInfo) ==
    IF query.continuationToken # <<>> /\ tokenInfo.startAfter # <<>>
    THEN tokenInfo.startAfter ELSE query.startAfter

\* mutant: the whole token table is emptied with the consumed token
takeToken_Clear(tokens, prevToken) ==
    [found |-> MapHas(tokens, prevToken),
     info |-> IF MapHas(tokens, prevToken) THEN MapGet(tokens, prevToken)
              ELSE [offset |-> 0, startAfter |-> <<>>],
     tokens |-> <<>>]

\* mutant: the token stays in the table
takeToken_Keep(tokens, prevToken) ==
    [found |-> MapHas(tokens, prevToken),
     info |-> IF MapHas(tokens, prevToken) THEN MapGet(tokens, prevToken)
              ELSE [offset |-> 0, startAfter |-> <<>>],
     tokens |-> tokens]

\* mutant: the page resumes one entry too far
takeToken_SkipOne(tokens, prevToken) ==
    [found |-> MapHas(tokens, prevToken),
     info |-> IF MapHas(tokens, prevToken)
              THEN [MapGet(tokens, prevToken) EXCEPT !.offset = @ + 1]
              ELSE [offset |-> 0, startAfter |-> <<>>],
     tokens |-> MapDelete(tokens, prevToken)]

\* tokens.get(prevToken); tokens.delete(prevToken)
takeToken(tokens, prevToken) ==
    [found |-> MapHas(tokens, prevToken),
     info |-> IF MapHas(tokens, prevToken) THEN MapGet(tokens, prevToken)
              ELSE [offset |-> 0, startAfter |-> <<>>],
     tokens |-> MapDelete(tokens, prevToken)]

\* tokens: the token table; fresh: the value cuuid() would return
paginate(tokens, query, rawObjects, fresh) ==
    LET page(maxKeys, taken, startAfter, rest, end) ==
            IF ~taken.found
            THEN [ok |-> FALSE, err |-> Error("invalid next token"),
                  tokens |-> taken.tokens, objects |-> <<>>,
                  prevToken |-> query.continuationToken,
                  maxKeys |-> maxKeys, nextToken |-> <<>>]
            ELSE [ok |-> TRUE, err |-> Error(""),
                  tokens |-> IF Len(rest) > end
                             THEN MapSet(taken.tokens, fresh,
                                         [offset |-> end,
                                          startAfter |-> startAfter])
                             ELSE taken.tokens,
                  objects |-> JsSlice(rest, taken.info.offset, end),
                  prevToken |-> query.continuationToken,
                  maxKeys |-> maxKeys,
                  nextToken |-> IF Len(rest) > end THEN fresh ELSE <<>>]
        drop(maxKeys, taken, startAfter, index) ==
            page(maxKeys, taken, startAfter,
                 IF index >= 1
                 THEN JsSlice(rawObjects, index, Len(rawObjects))
                 ELSE rawObjects,
                 taken.info.offset + maxKeys)
        seek(maxKeys, taken, startAfter) ==
            drop(maxKeys, taken, startAfter,
                 IF startAfter # <<>> THEN findIndex(rawObjects, startAfter)
                 ELSE 0)
        resume(maxKeys, taken) ==
            seek(maxKeys, taken, startAfterOf(query, taken.info))
    IN resume(pageSize(query),
              IF query.continuationToken # <<>>
              THEN takeToken(tokens, query.continuationToken)
              ELSE [found |-> TRUE,
                    info |-> [offset |-> 0, startAfter |-> <<>>],
                    tokens |-> tokens])

\* the <Contents> element of one object
\* mutant: a key is kept when its first character is the prefix's
filterPrefix_FirstChar(objects, prefix) ==
    SelectSeq(objects,
        LAMBDA o : StartsWith(o.key, SubSeq(prefix, 1, 1)))

\* objects.filter((o) => o.key.startsWith(filterPrefix))
filterPrefix(objects, prefix) ==
    SelectSeq(objects, LAMBDA o : StartsWith(o.key, prefix))

ContentsXml(o) ==
    [Key |-> o.key, LastModified |-> o.lastModified, ETag |-> o.md5,
     Size |-> o.contentLength, StorageClass |-> "STANDARD"]

_handleGetObjectsV2(s, r, fresh) ==
    LET fail(e) == [ok |-> FALSE, err |-> e, s |-> s, xml |-> Undefined]
        render(bucket, page, contents, commonPrefixes) ==
            [ok |-> TRUE, err |-> Error(""),
             s |-> [s EXCEPT !.tokens = page.tokens],
             xml |-> [IsTruncated |-> page.nextToken # <<>>,
                      Name |-> bucket,
                      Prefix |-> r.query.prefix,
                      MaxKeys |-> page.maxKeys,
                      KeyCount |-> Len(page.objects),
                      Contents |-> [i \in 1..Len(contents) |->
                                       ContentsXml(contents[i])],
                      CommonPrefixes |->
                          [i \in 1..Len(commonPrefixes) |->
                              [Prefix |-> commonPrefixes[i].prefix]],
                      NextContinuationToken |-> page.nextToken,
                      ContinuationToken |-> page.prevToken,
                      Delimiter |-> r.query.delimiter]]
        respond(bucket, page) ==
            IF ~page.ok
            THEN [ok |-> FALSE, err |-> page.err,
                  s |-> [s EXCEPT !.tokens = page.tokens],
                  xml |-> Undefined]
            ELSE render(bucket, page,
                     SelectSeq(page.objects,
                         LAMBDA o : o.type = "s3-object"),
                     SelectSeq(page.objects,
                         LAMBDA o : o.type # "s3-object"))
        split(bucket, objects) ==
            respond(bucket,
                paginate(s.tokens, r.query,
                    IF r.query.delimiter # <<>>
                    THEN splitObjects(objects, r.query.delimiter,
                                      r.query.prefix)
                    ELSE objects,
                    fresh))
        filter(bucket, sorted) ==
            split(bucket,
                IF r.query.prefix # <<>>
                THEN filterPrefix(sorted, r.query.prefix)
                ELSE sorted)
        list(bucketsMap, bucket) ==
            IF ~bucketsMap.defined \/ ~MapHas(bucketsMap.map, bucket)
            THEN fail(NoSuchBucketError(
                          "The specified bucket does not exist", bucket))
            ELSE filter(bucket,
                        sort(getObjects(MapGet(bucketsMap.map, bucket))))
        handle(parts) ==
            IF Len(parts) > 2 \/ parts[1] # <<>>
            THEN fail(Error("invalid url, expected /:bucket"))
            ELSE list(_getBucketsMap(s, r),
                      IF Len(parts) >= 2 THEN parts[2] ELSE <<>>)
    IN handle(Split(r.pathname, SLASH))

\* mutant: an error without code is reported without code
_buildError_NoDefault(err) ==
    [Code |-> err.code, Message |-> err.message, Resource |-> err.resource,
     RequestId |-> "1"]

_buildError(err) ==
    [Code |-> IF err.code # "" THEN err.code ELSE "InternalError",
     Message |-> err.message,
     Resource |-> err.resource,
     RequestId |-> "1"]

\* mutant: a missing bucket is answered with status 404
_writeError_NotFound(err) ==
    [statusCode |-> IF err.code = "NoSuchBucket" THEN 404 ELSE 500,
     ETag |-> <<>>, kind |-> "Error", body |-> _buildError(err)]

_writeError(err) == [statusCode |-> 500, ETag |-> <<>>, kind |-> "Error",
                     body |-> _buildError(err)]

\* the 'end' handler of a request: returns the instance after the request
\* and the response written
_handleServerRequest(s, r, fresh, t) ==
    LET answerPut(put) ==
            IF ~put.ok THEN [s |-> put.s, res |-> _writeError(put.err)]
            ELSE [s |-> put.s,
                  res |-> [statusCode |-> 200,
                           ETag |-> <<"\"">> \o put.obj.md5 \o <<"\"">>,
                           kind |-> "PutObject", body |-> Undefined]]
        answerGet(get) ==
            IF ~get.ok THEN [s |-> get.s, res |-> _writeError(get.err)]
            ELSE [s |-> get.s,
                  res |-> [statusCode |-> 200, ETag |-> <<>>,
                           kind |-> "ListObjectsV2", body |-> get.xml]]
    IN IF r.method = "PUT"
       THEN answerPut(_handlePutObject(s, r, t))
       ELSE IF r.method = "GET" /\ r.pathname = SLASH /\ r.query = NoQuery
       THEN [s |-> s,
             res |-> [statusCode |-> 200, ETag |-> <<>>,
                      kind |-> "ListBuckets",
                      body |-> _handleListBuckets(s, r)]]
       ELSE IF r.method = "GET"
       THEN answerGet(_handleGetObjectsV2(s, r, fresh))
       ELSE [s |-> s,
             res |-> _writeError(
                        [message |-> [text |-> "url not supported: ",
                                      method |-> r.method, url |-> Url(r)],
                         code |-> "", resource |-> <<>>])]

(***************************************************************************)
(* Values the requests and calls of the model are drawn from.              *)
(***************************************************************************)
B1 == <<"b", "1">>
B2 == <<"b", "2">>
NoBucket == <<"x">>            \* a bucket name no profile ever holds
AK1 == <<"a", "1">>            \* access key ids
AK2 == <<"a", "2">>
KA == <<"a">>
KAA == <<"a", "/", "a">>
KAB == <<"a", "/", "b">>
KB == <<"b">>
Keys == {KA, KAA, KAB, KB}
Bodies == {<<"x">>, <<"a", "b">>}
Owner1 == [DisplayName |-> "one", ID |-> "11"]
Owner2 == [DisplayName |-> "two", ID |-> "22"]

\* the Authorization header the AWS SDK sends for an access key id
AuthFor(accessKeyId) ==
    <<"A", "W", "S", "4", " ">> \o CREDENTIAL \o accessKeyId
        \o <<"/", "2", "0", ",", " ", "S", "i", "g">>
AuthHeaders == {<<>>, AuthFor(AK1), AuthFor(AK2)}

PutReq(auth, bucket, key, body, copySource, uploadId) ==
    [method |-> "PUT",
     pathname |-> SLASH \o bucket \o (IF key = <<>> THEN <<>>
                                      ELSE SLASH \o key),
     query |-> [NoQuery EXCEPT !.uploadId = uploadId],
     headers |-> [authorization |-> auth, copySource |-> copySource],
     body |-> body]

GetReq(auth, pathname, query) ==
    [method |-> "GET", pathname |-> pathname, query |-> query,
     headers |-> [authorization |-> auth, copySource |-> <<>>],
     body |-> <<>>]

OtherReq(method, auth, pathname) ==
    [method |-> method, pathname |-> pathname, query |-> NoQuery,
     headers |-> [authorization |-> auth, copySource |-> <<>>],
     body |-> <<>>]

(***************************************************************************)
(* State.                                                                  *)
(***************************************************************************)
Instances == {"live", "cache"}

Options(prefix, buckets, waitTimeout) ==
    [prefix |-> prefix, buckets |-> buckets, cachePath |-> <<>>,
     waitTimeout |-> waitTimeout, start |-> 0]

\* the file system holds the root and the temporary directory
TmpDir == <<<<"t", "m", "p">>>>
EmptyDisk == [dirs |-> {<<>>, TmpDir}, files |-> [q \in {} |-> <<>>]]
CachePath == TmpDir \o <<<<"c">>>>

IdleWait == [pc |-> "idle", bucket |-> <<>>, count |-> 0, started |-> 0,
             deadline |-> 0, wake |-> 0, result |-> Undefined, ended |-> 0]
\* a connection on which no request has arrived yet
IdleConn == [pc |-> "idle", r |-> Undefined, buffers |-> <<>>,
             rest |-> <<>>, responses |-> <<>>]

IdleWalk == [pc |-> "idle", request |-> Undefined, token |-> <<>>,
             pages |-> 0, contents |-> <<>>, commonPrefixes |-> <<>>]

\* the state after new FakeS3(options) and bootstrap() of the live
\* instance; the cache instance is constructed but not yet bootstrapped
InitWith(options) ==
    /\ srv = [i \in Instances |->
                IF i = "live"
                THEN bootstrap(NewFakeS3(options), EmptyDisk, FALSE).s
                ELSE NewFakeS3([Options(<<>>, <<>>, 0) EXCEPT
                                   !.cachePath = CachePath])]
    /\ uuidCount = 0
    /\ now = 0
    /\ req = [op |-> "bootstrap"]
    /\ resp = Undefined
    /\ disk = EmptyDisk
    /\ wait = IdleWait
    /\ walk = IdleWalk
    /\ conns = [c \in 1..MaxConns |-> IdleConn]

(***************************************************************************)
(* Actions of the HTTP interface and of the direct calls.                  *)
(***************************************************************************)
\* every bucket of the instance is within the bound of the model
WithinBounds(s) ==
    \A i \in 1..Len(s.profiles) : \A j \in 1..Len(s.profiles[i].v) :
        Len(s.profiles[i].v[j].v.objects) <= MaxObjects

\* instance i receives the whole body of request r and answers it
Handle(i, r) ==
    LET answer(out, minted) ==
            /\ WithinBounds(out.s)
            /\ minted => uuidCount < MaxTokens
            /\ srv' = [srv EXCEPT ![i] = out.s]
            /\ uuidCount' = IF minted THEN uuidCount + 1 ELSE uuidCount
            /\ req' = [op |-> "request", instance |-> i, r |-> r]
            /\ resp' = out.res
        handle(out) ==
            answer(out, MapHas(out.s.tokens, cuuid(uuidCount + 1)))
    IN /\ srv[i].hostPort # Null
       /\ handle(_handleServerRequest(srv[i], r, cuuid(uuidCount + 1), now))

Request(i, r) ==
    /\ Handle(i, r)
    /\ UNCHANGED <<now, disk, wait, walk, conns>>

\* a direct call of populateBuckets on instance i
PopulateBuckets(i, accessKeyId, buckets) ==
    /\ srv' = [srv EXCEPT ![i] = populateBuckets(srv[i], accessKeyId,
                                                 buckets)]
    /\ req' = [op |-> "populateBuckets", instance |-> i,
               accessKeyId |-> accessKeyId, buckets |-> buckets]
    /\ resp' = [ok |-> TRUE]
    /\ UNCHANGED <<uuidCount, now, disk, wait, walk, conns>>

\* a direct call of populateObjects on instance i
PopulateObjects(i, accessKeyId, bucketName, objects) ==
    LET load(out) ==
            /\ WithinBounds(out.s)
            /\ srv' = [srv EXCEPT ![i] = out.s]
            /\ req' = [op |-> "populateObjects", instance |-> i,
                       accessKeyId |-> accessKeyId,
                       bucketName |-> bucketName, objects |-> objects]
            /\ resp' = [ok |-> out.ok, err |-> out.err]
            /\ UNCHANGED <<uuidCount, now, disk, wait, walk, conns>>
    IN load(populateObjects(srv[i], accessKeyId, bucketName, objects))

(***************************************************************************)
(* Spec: the request router and the bucket namespace of one instance.      *)
(***************************************************************************)
RouterPuts ==
    {PutReq(auth, B1, k, body, <<>>, <<>>) :
        auth \in {<<>>, AuthFor(AK1)}, k \in {KA, KAB}, body \in Bodies}
    \cup {PutReq(auth, NoBucket, KA, <<"x">>, <<>>, <<>>) :
            auth \in {<<>>, AuthFor(AK1)}}
    \cup {PutReq(<<>>, b, KA, <<"x">>, cs, up) :
            b \in {B1, NoBucket}, cs \in {<<>>, SLASH \o B1 \o SLASH \o KB},
            up \in {<<>>, <<"1">>}}
    \cup {PutReq(<<>>, b, <<>>, <<"x">>, cs, <<>>) :
            b \in {B1, NoBucket}, cs \in {<<>>, SLASH \o B1 \o SLASH \o KB}}

RouterGets ==
    {GetReq(auth, path, NoQuery) :
        auth \in AuthHeaders,
        path \in {SLASH, SLASH \o B1, SLASH \o NoBucket}}
    \cup {GetReq(<<>>, path, NoQuery) :
            path \in {SLASH \o B2, SLASH \o B1 \o SLASH \o KA,
                      SLASH \o NoBucket \o SLASH \o KA}}
    \cup {GetReq(<<>>, SLASH \o b,
                 [NoQuery EXCEPT !.continuationToken = <<"x">>]) :
            b \in {B1, NoBucket}}
    \cup {GetReq(<<>>, SLASH, [NoQuery EXCEPT !.maxKeys = <<"1">>])}

RouterOthers ==
    {OtherReq("POST", <<>>, SLASH \o B1 \o SLASH \o KA),
     [OtherReq("POST", <<>>, SLASH \o B1 \o SLASH \o KA)
         EXCEPT !.query.uploadId = <<"1">>],
     OtherReq("DELETE", <<>>, SLASH \o B1),
     OtherReq("HEAD", <<>>, SLASH)}

CachedContents(key, body) ==
    [Key |-> key, LastModified |-> toISOString(0), ETag |-> Md5(body),
     Size |-> Len(body), StorageClass |-> "STANDARD"]

CachedBucketLists ==
    {[Buckets |-> <<[Name |-> B1]>>, Owner |-> Owner1],
     [Buckets |-> <<[Name |-> B2], [Name |-> B1]>>, Owner |-> Undefined]}

CachedObjectList ==
    [Contents |-> <<CachedContents(KB, <<"x">>),
                    CachedContents(KA, <<"a", "b">>)>>]

Init == \E buckets \in {<<>>, <<B1, B2>>} :
            InitWith(Options(<<>>, buckets, 0))

PutObject == \E r \in RouterPuts : Request("live", r)
GetRequest == \E r \in RouterGets : Request("live", r)
OtherRequest == \E r \in RouterOthers : Request("live", r)
LoadBuckets ==
    \E b \in CachedBucketLists : PopulateBuckets("live", AK1, b)
LoadObjects ==
    \E call \in {<<AK1, B1>>, <<AK1, NoBucket>>, <<AK2, B1>>} :
        PopulateObjects("live", call[1], call[2], CachedObjectList)

Next == PutObject \/ GetRequest \/ OtherRequest \/ LoadBuckets
            \/ LoadObjects

Spec == Init /\ [][Next]_vars

(***************************************************************************)
(* Claims about the router and the namespace, checked under Spec.          *)
(***************************************************************************)
Live == srv["live"]

\* Every action records the call it handles in req, so a step that changes
\* the state and ends with req.op = "request" is the handling of the
\* request req'.r by the instance req'.instance.
LiveRequestStep ==
    /\ req'.op = "request"
    /\ req'.instance = "live"

IsNoSuchBucket(res) ==
    /\ res.kind = "Error"
    /\ res.body.Code = "NoSuchBucket"
    /\ res.body.Message.text = "The specified bucket does not exist"

\* the bucket a request names: the first segment of its path
BucketOf(r) == Split(r.pathname, SLASH)[2]

\* a PUT of the form /:bucket/:key
IsObjectPut(r) == r.method = "PUT" /\ Len(Split(r.pathname, SLASH)) >= 3

\* a list-objects request: a GET of /:bucket
IsListObjects(r) ==
    /\ r.method = "GET"
    /\ Len(Split(r.pathname, SLASH)) = 2
    /\ ~(r.pathname = SLASH /\ r.query = NoQuery)

\* the request names a bucket that its profile does not hold: the default
\* profile for a PUT, the resolved profile for a list-objects
MissesBucket(s, r) ==
    \/ /\ IsObjectPut(r)
       /\ \/ ~MapHas(s.profiles, DEFAULT)
          \/ ~MapHas(MapGet(s.profiles, DEFAULT), BucketOf(r))
    \/ /\ IsListObjects(r)
       /\ \/ ~_getBucketsMap(s, r).defined
          \/ ~MapHas(_getBucketsMap(s, r).map, BucketOf(r))

\* C5 as stated: every PUT /:bucket/:key and every list-objects that names
\* a missing bucket is answered NoSuchBucket 'The specified bucket does not
\* exist', and leaves all profiles, buckets and objects as they were.
C5_AnyPutReportsNoSuchBucket ==
    [][(LiveRequestStep /\ MissesBucket(Live, req'.r))
          => /\ IsNoSuchBucket(resp')
             /\ srv'["live"].profiles = Live.profiles]_vars

\* C5 amended: a PUT /:bucket/:key that carries neither a copy-source
\* header nor an uploadId, and every list-objects, that names a missing
\* bucket is answered NoSuchBucket with the fixed message; every request
\* naming a missing bucket leaves all profiles, buckets and objects as
\* they were.
C5_MissingBucket ==
    [][(LiveRequestStep /\ MissesBucket(Live, req'.r))
          => /\ (req'.r.headers.copySource = <<>>
                    /\ req'.r.query.uploadId = <<>>)
                    => IsNoSuchBucket(resp')
             /\ srv'["live"].profiles = Live.profiles]_vars

\* a plain PUT to a missing bucket was refused while other buckets exist
C5_Witness ==
    /\ req.op = "request"
    /\ req.r.method = "PUT"
    /\ req.r.headers.copySource = <<>>
    /\ req.r.query.uploadId = <<>>
    /\ BucketOf(req.r) = NoBucket
    /\ IsNoSuchBucket(resp)
    /\ MapHas(Live.profiles, DEFAULT)

NonDefaultProfiles(s) == SelectSeq(s.profiles, LAMBDA e : e.k # DEFAULT)

\* the keys at which two object maps differ
DiffKeys(m1, m2) ==
    {k \in SeqToSet(MapKeys(m1)) \cup SeqToSet(MapKeys(m2)) :
        \/ MapHas(m1, k) # MapHas(m2, k)
        \/ MapHas(m1, k) /\ MapHas(m2, k) /\ MapGet(m1, k) # MapGet(m2, k)}

\* the bucket maps of a profile differ in at most one object of one bucket
OneObjectApart(b1, b2) ==
    /\ MapKeys(b1) = MapKeys(b2)
    /\ Cardinality({j \in 1..Len(b1) : b1[j].v # b2[j].v}) <= 1
    /\ \A j \in 1..Len(b1) :
          Cardinality(DiffKeys(b1[j].v.objects, b2[j].v.objects)) <= 1

\* C6: whatever credentials a PUT carries, it changes at most one object of
\* one bucket of the 'default' profile; the profiles other than 'default',
\* their buckets and objects, and the order of the profiles are unchanged.
C6_PutTargetsDefault ==
    [][(LiveRequestStep /\ req'.r.method = "PUT")
          => /\ NonDefaultProfiles(srv'["live"]) = NonDefaultProfiles(Live)
             /\ MapKeys(srv'["live"].profiles) = MapKeys(Live.profiles)
             /\ MapHas(Live.profiles, DEFAULT)
                    => OneObjectApart(MapGet(Live.profiles, DEFAULT),
                           MapGet(srv'["live"].profiles, DEFAULT))]_vars

\* a PUT signed with the access key of a cache-populated profile that has
\* a bucket of the same name was stored
C6_Witness ==
    /\ req.op = "request"
    /\ req.r.method = "PUT"
    /\ resp.kind = "PutObject"
    /\ stripCreds(req.r.headers.authorization).accessKeyId = AK1
    /\ MapHas(Live.profiles, AK1)
    /\ MapHas(MapGet(Live.profiles, AK1), BucketOf(req.r))

(***************************************************************************)
(* SpecWalk: objects are uploaded to one bucket in any order, then a       *)
(* client lists the bucket page by page, as the test 'list objects with    *)
(* continuationToken' does: the first request carries max-keys, prefix and *)
(* delimiter, each later one also the NextContinuationToken of the page    *)
(* before, until a page has IsTruncated = false.                           *)
(***************************************************************************)
WalkPuts ==
    {PutReq(<<>>, B1, k, <<"x">>, <<>>, <<>>) : k \in Keys}
    \cup {PutReq(<<>>, B1, KA, <<"a", "b">>, <<>>, <<>>)}

WalkQueries ==
    {[NoQuery EXCEPT !.maxKeys = m, !.prefix = p, !.delimiter = d] :
        m \in {<<>>, <<"1">>, <<"2">>}, p \in {<<>>, KA, <<"a", "/">>},
        d \in {<<>>, SLASH}}

\* the client after a page: it keeps the keys and common prefixes seen
AfterPage(w, query, res) ==
    IF res.kind # "ListObjectsV2"
    THEN [w EXCEPT !.pc = "failed", !.request = query]
    ELSE [pc |-> IF res.body.IsTruncated THEN "walking" ELSE "done",
          request |-> query,
          token |-> res.body.NextContinuationToken,
          pages |-> w.pages + 1,
          contents |-> w.contents \o
              [i \in 1..Len(res.body.Contents) |-> res.body.Contents[i].Key],
          commonPrefixes |-> w.commonPrefixes \o
              [i \in 1..Len(res.body.CommonPrefixes) |->
                  res.body.CommonPrefixes[i].Prefix]]

InitWalk == InitWith(Options(<<>>, <<B1>>, 0))

WalkUpload ==
    /\ walk.pc = "idle"
    /\ \E r \in WalkPuts : Request("live", r)

WalkFirstPage ==
    /\ walk.pc = "idle"
    /\ \E q \in WalkQueries :
          /\ Handle("live", GetReq(<<>>, SLASH \o B1, q))
          /\ walk' = AfterPage(walk, q, resp')
    /\ UNCHANGED <<now, disk, wait, conns>>

WalkNextPage ==
    /\ walk.pc = "walking"
    /\ Handle("live", GetReq(<<>>, SLASH \o B1,
                  [walk.request EXCEPT !.continuationToken = walk.token]))
    /\ walk' = AfterPage(walk, walk.request, resp')
    /\ UNCHANGED <<now, disk, wait, conns>>

NextWalk == WalkUpload \/ WalkFirstPage \/ WalkNextPage

SpecWalk == InitWalk /\ [][NextWalk]_vars

(***************************************************************************)
(* Claims about listings, checked under SpecWalk.                          *)
(***************************************************************************)
\* the keys of bucket B1 of the default profile
KeysOfB1 ==
    SeqToSet(MapKeys(MapGet(MapGet(Live.profiles, DEFAULT), B1).objects))

\* strictly ascending in the order of JavaScript strings
Ascending(keys) ==
    \A i, j \in 1..Len(keys) : i < j => StrLess(keys[i], keys[j])

\* the page size M of the walk, 0 when the request has no max-keys
WalkM == IF walk.request.maxKeys = <<>> THEN 0
         ELSE parseInt(walk.request.maxKeys).val

\* C1: a walk with page size 1 <= M < N over a bucket of N objects, without
\* prefix and delimiter, that has reached IsTruncated = false has returned
\* every key of the bucket exactly once, in ascending order over the
\* concatenated pages.
C1_PaginationComplete ==
    (/\ walk.pc = "done"
     /\ walk.request.prefix = <<>>
     /\ walk.request.delimiter = <<>>
     /\ 1 <= WalkM
     /\ WalkM < Cardinality(KeysOfB1))
        => /\ SeqToSet(walk.contents) = KeysOfB1
           /\ Len(walk.contents) = Cardinality(KeysOfB1)
           /\ Ascending(walk.contents)
           /\ walk.commonPrefixes = <<>>

\* a walk of three objects in pages of one key has ended
C1_Witness ==
    /\ walk.pc = "done"
    /\ walk.request.prefix = <<>>
    /\ walk.request.delimiter = <<>>
    /\ WalkM = 1
    /\ Cardinality(KeysOfB1) = 3
    /\ walk.pages = 3

\* C2: an unfiltered list-objects without delimiter, start-after and token
\* whose page holds the whole bucket returns exactly the keys of the
\* bucket, each once, in ascending order, whatever the order of the uploads
\* and overwrites that built the bucket.
C2_SortedListing ==
    (/\ req.op = "request"
     /\ IsListObjects(req.r)
     /\ req.r.query.prefix = <<>>
     /\ req.r.query.delimiter = <<>>
     /\ req.r.query.continuationToken = <<>>
     /\ req.r.query.maxKeys = <<>>)
        => /\ resp.kind = "ListObjectsV2"
           /\ ~resp.body.IsTruncated
           /\ Ascending([i \in 1..Len(resp.body.Contents) |->
                            resp.body.Contents[i].Key])
           /\ {resp.body.Contents[i].Key :
                  i \in 1..Len(resp.body.Contents)} = KeysOfB1
           /\ resp.body.KeyCount = Cardinality(KeysOfB1)

\* the bucket was filled in descending key order, with an overwrite, and
\* then listed
C2_Witness ==
    /\ req.op = "request"
    /\ IsListObjects(req.r)
    /\ req.r.query.prefix = <<>>
    /\ req.r.query.delimiter = <<>>
    /\ req.r.query.maxKeys = <<>>
    /\ resp.kind = "ListObjectsV2"
    /\ MapKeys(MapGet(MapGet(Live.profiles, DEFAULT), B1).objects)
           = <<KB, KAB, KA>>
    /\ MapGet(MapGet(MapGet(Live.profiles, DEFAULT), B1).objects, KA).content
           = <<"a", "b">>

\* the part of a key after the prefix
Remainder(key, prefix) == StrDrop(key, Len(prefix))

\* the keys of the bucket that start with the prefix of the walk
WalkMatching == {k \in KeysOfB1 : StartsWith(k, walk.request.prefix)}

\* the common prefix that covers a key whose remainder has the delimiter
CoveringPrefix(key, prefix, delimiter) ==
    prefix \o SubSeq(Remainder(key, prefix), 1,
                     IndexOf(Remainder(key, prefix), delimiter) - 1)
           \o delimiter

\* C4: over the whole listing with a delimiter and optional prefix, the
\* Contents are exactly the matching keys whose remainder after the prefix
\* has no delimiter, the CommonPrefixes are exactly the strings
\* prefix + first segment + delimiter of the other matching keys, each
\* once, and every matching key is listed itself or covered by exactly one
\* common prefix, never both.
C4_DelimiterGrouping ==
    (walk.pc = "done" /\ walk.request.delimiter # <<>>)
        => /\ SeqToSet(walk.contents) =
                  {k \in WalkMatching :
                      IndexOf(Remainder(k, walk.request.prefix),
                              walk.request.delimiter) = 0}
           /\ Len(walk.contents) = Cardinality(SeqToSet(walk.contents))
           /\ SeqToSet(walk.commonPrefixes) =
                  {CoveringPrefix(k, walk.request.prefix,
                                  walk.request.delimiter) :
                      k \in {m \in WalkMatching :
                                IndexOf(Remainder(m, walk.request.prefix),
                                        walk.request.delimiter) # 0}}
           /\ Len(walk.commonPrefixes) =
                  Cardinality(SeqToSet(walk.commonPrefixes))
           /\ \A k \in WalkMatching :
                  Cardinality({c \in SeqToSet(walk.commonPrefixes) :
                                  StartsWith(k, c)})
                      = IF k \in SeqToSet(walk.contents) THEN 0 ELSE 1

\* a paged listing with delimiter '/' has folded two keys into one common
\* prefix and listed another key itself
C4_Witness ==
    /\ walk.pc = "done"
    /\ walk.request.delimiter = SLASH
    /\ walk.request.prefix = <<>>
    /\ walk.pages = 2
    /\ KeysOfB1 = {KAA, KAB, KB}
    /\ walk.commonPrefixes = <<<<"a", "/">>>>
    /\ walk.contents = <<KB>>

\* C17: a listing with a prefix and no delimiter, followed to its last
\* page, has returned exactly the keys of the bucket that start with the
\* prefix, each once and in ascending order, and no common prefix; a key
\* that does not start with the prefix is on no page, and every page echoes
\* the prefix of its request.
C17_PrefixFilter ==
    /\ (/\ walk.pc = "done"
        /\ walk.request.prefix # <<>>
        /\ walk.request.delimiter = <<>>)
           => /\ SeqToSet(walk.contents) = WalkMatching
              /\ Len(walk.contents) = Cardinality(WalkMatching)
              /\ Ascending(walk.contents)
              /\ walk.commonPrefixes = <<>>
    /\ (/\ walk.pc \in {"walking", "done"}
        /\ walk.request.prefix # <<>>
        /\ walk.request.delimiter = <<>>)
           => /\ \A i \in 1..Len(walk.contents) :
                     StartsWith(walk.contents[i], walk.request.prefix)
              /\ resp.kind = "ListObjectsV2"
              /\ resp.body.Prefix = walk.request.prefix

\* a bucket with the keys a, a/b and b was listed with the prefix a/ and
\* the listing returned a/b alone
C17_Witness ==
    /\ walk.pc = "done"
    /\ walk.request.prefix = <<"a", "/">>
    /\ walk.request.delimiter = <<>>
    /\ KeysOfB1 = {KA, KAB, KB}
    /\ walk.contents = <<KAB>>
    /\ resp.body.Prefix = <<"a", "/">>

\* the key a PUT /b1/:key names
KeyOf(r) == StrDrop(r.pathname, Len(B1) + 2)

\* the objects of bucket b1 as the listing engine reads them
ObjectsRead(s) == getObjects(MapGet(MapGet(s.profiles, DEFAULT), B1))

\* C26: in every state a bucket holds at most one object per key.  A
\* successful PUT to a key the bucket holds leaves the number of objects as
\* it was, a PUT to a new key raises it by one, and after either the object
\* read under the key has the content, the content length and the
\* fingerprint of the body of that PUT; the other objects are as before.
C26_OverwriteByKey ==
    [][/\ \A i, j \in 1..Len(ObjectsRead(srv'["live"])) :
             i # j => ObjectsRead(srv'["live"])[i].key
                          # ObjectsRead(srv'["live"])[j].key
       /\ (/\ LiveRequestStep
           /\ IsObjectPut(req'.r)
           /\ resp'.kind = "PutObject")
             => /\ Len(ObjectsRead(srv'["live"]))
                       = Len(ObjectsRead(Live))
                         + (IF \E o \in SeqToSet(ObjectsRead(Live)) :
                                   o.key = KeyOf(req'.r)
                            THEN 0 ELSE 1)
                /\ \A o \in SeqToSet(ObjectsRead(srv'["live"])) :
                       IF o.key = KeyOf(req'.r)
                       THEN /\ o.content = req'.r.body
                            /\ o.contentLength = Len(req'.r.body)
                            /\ o.md5 = Md5(req'.r.body)
                            /\ o.lastModified = toISOString(now)
                       ELSE o \in SeqToSet(ObjectsRead(Live))]_vars

\* the key a, the first of the three keys of the bucket, was uploaded
\* again, with the body ab: the bucket still holds three objects and the
\* object a has that content
C26_Witness ==
    /\ req.op = "request"
    /\ IsObjectPut(req.r)
    /\ KeyOf(req.r) = KA
    /\ req.r.body = <<"a", "b">>
    /\ resp.kind = "PutObject"
    /\ Len(ObjectsRead(Live)) = 3
    /\ ObjectsRead(Live)[1].key = KA
    /\ ObjectsRead(Live)[1].content = <<"a", "b">>

(***************************************************************************)
(* SpecTokens: uploads to one bucket and list-objects requests that carry  *)
(* any continuation token: none, one the server has minted or will mint,   *)
(* or one it never mints.                                                  *)
(***************************************************************************)
ForgedToken == <<"x">>

TokenPuts == {PutReq(<<>>, B1, k, <<"x">>, <<>>, <<>>) : k \in {KA, KAB, KB}}

TokenGets ==
    {GetReq(<<>>, SLASH \o B1,
            [NoQuery EXCEPT !.maxKeys = m, !.startAfter = sa,
                            !.continuationToken = t]) :
        m \in {<<"1">>, <<"2">>}, sa \in {<<>>},
        t \in {<<>>, ForgedToken} \cup {cuuid(n) : n \in 1..MaxTokens}}
    \cup {GetReq(<<>>, SLASH \o B1,
                 [NoQuery EXCEPT !.maxKeys = m, !.startAfter = KA,
                                 !.continuationToken = t]) :
            m \in {<<"1">>, <<"2">>}, t \in {<<>>, cuuid(1)}}
    \cup {GetReq(<<>>, SLASH \o NoBucket,
                 [NoQuery EXCEPT !.continuationToken = t]) :
            t \in {ForgedToken, cuuid(1)}}

InitTokens == InitWith(Options(<<>>, <<B1>>, 0))

TokenUpload == \E r \in TokenPuts : Request("live", r)
TokenList == \E r \in TokenGets : Request("live", r)

NextTokens == TokenUpload \/ TokenList

SpecTokens == InitTokens /\ [][NextTokens]_vars

\* C3: a list-objects request whose token is not in the token table is
\* answered with an error and no entries ('invalid next token' when the
\* bucket exists); a request that is answered with a page has removed its
\* token from the table; and a token that was minted and is no longer in
\* the table never enters it again, so no later request is accepted with it.
C3_TokensSingleUse ==
    [][/\ (/\ LiveRequestStep
           /\ IsListObjects(req'.r)
           /\ req'.r.query.continuationToken # <<>>)
          => /\ ~MapHas(Live.tokens, req'.r.query.continuationToken)
                    => /\ resp'.kind = "Error"
                       /\ resp'.statusCode = 500
                       /\ ~MissesBucket(Live, req'.r)
                              => resp'.body.Message.text
                                     = "invalid next token"
                       /\ srv'["live"].tokens = Live.tokens
             /\ resp'.kind = "ListObjectsV2"
                    => /\ MapHas(Live.tokens,
                                 req'.r.query.continuationToken)
                       /\ ~MapHas(srv'["live"].tokens,
                                  req'.r.query.continuationToken)
       /\ \A n \in 1..uuidCount :
             ~MapHas(Live.tokens, cuuid(n))
                 => ~MapHas(srv'["live"].tokens, cuuid(n))]_vars

\* a token that was minted and consumed was presented again and refused
C3_Witness ==
    /\ req.op = "request"
    /\ IsListObjects(req.r)
    /\ req.r.query.continuationToken = cuuid(1)
    /\ uuidCount >= 2
    /\ resp.kind = "Error"
    /\ resp.body.Message.text = "invalid next token"

(***************************************************************************)
(* SpecWait: one waitForFiles call on an instance with prefix 'a' and      *)
(* waitTimeout 150 ms, interleaved with uploads and the passing of time.   *)
(* Time passes and a timer that is due fires: both are weakly fair.        *)
(***************************************************************************)
WaitTimeout == 3        \* waitTimeout: 150 of the test 'waitForFiles() timeout'

WaitKeys == {KA, KAA, KB}

InitWait == InitWith(Options(KA, <<B1>>, WaitTimeout))

\* each file is uploaded once
WaitUpload ==
    \E k \in WaitKeys \ KeysOfB1 :
        Request("live", PutReq(<<>>, B1, k, <<"x">>, <<>>, <<>>))

\* the call starts early enough to end before the clock of the model stops
WaitCall ==
    /\ wait.pc = "idle"
    /\ now + Live.waitTimeout + SleepTime <= MaxTime
    /\ \E bucket \in {B1, NoBucket}, count \in {1, 2} :
          /\ wait' = waitForFiles(Live, bucket, count, now)
          /\ req' = [op |-> "waitForFiles", instance |-> "live",
                     bucket |-> bucket, count |-> count]
    /\ resp' = Undefined
    /\ UNCHANGED <<srv, uuidCount, now, disk, walk, conns>>

\* the timer of sleep(100) fires, not before its time
WaitWake ==
    /\ wait.pc = "sleeping"
    /\ now >= wait.wake
    /\ wait' = waitLoop(Live, wait, now)
    /\ UNCHANGED <<srv, uuidCount, now, req, resp, disk, walk, conns>>

Tick ==
    /\ now < MaxTime
    /\ now' = now + 1
    /\ UNCHANGED <<srv, uuidCount, req, resp, disk, wait, walk, conns>>

\* a direct call of getFiles, made while no waitForFiles call is pending
GetFiles ==
    /\ wait.pc = "idle"
    /\ \E bucket \in {B1, NoBucket} :
          /\ req' = [op |-> "getFiles", instance |-> "live",
                     bucket |-> bucket]
          /\ resp' = getFiles(Live, bucket)
    /\ UNCHANGED <<srv, uuidCount, now, disk, wait, walk, conns>>

NextWait == WaitUpload \/ WaitCall \/ WaitWake \/ Tick \/ GetFiles

SpecWait == InitWait /\ [][NextWait]_vars /\ WF_vars(Tick)
                /\ WF_vars(WaitWake)

\* the objects a poll of the waited bucket finds now
Polled == getFiles(Live, wait.bucket).objects

C8_TimeoutYieldsNull ==
    /\ [](wait.pc = "done"
            => IF wait.result = Null
               THEN /\ wait.ended > wait.deadline
                    /\ wait.ended - wait.started >= Live.waitTimeout
               ELSE /\ Len(wait.result.objects) = wait.count
                    /\ wait.ended <= wait.deadline)
    /\ [](wait.pc = "sleeping" => <>(wait.pc = "done"))

\* a call for one file on a bucket that stayed empty returned null
C8_Witness ==
    /\ wait.pc = "done"
    /\ wait.result = Null
    /\ wait.bucket = B1
    /\ wait.count = 1
    /\ Polled = <<>>
    /\ wait.ended - wait.started > Live.waitTimeout

(***************************************************************************)
(* SpecCache: files are uploaded to the live instance, its listings are    *)
(* written to a cache directory with cacheBucketsToDisk and                *)
(* cacheObjectsToDisk, and the cache instance is bootstrapped from the     *)
(* directory.  Uploads end when the caching starts and the caching ends    *)
(* when the cache instance starts.                                         *)
(***************************************************************************)
\* s3.listBuckets() of the client with that access key id
listBuckets(s, accessKeyId) ==
    LET parse(xml) ==
            [Buckets |-> [i \in 1..Len(xml.Buckets) |->
                            [Name |-> xml.Buckets[i].Name,
                             CreationDate |->
                                 [date |-> xml.Buckets[i].CreationDate]]],
             Owner |-> xml.Owner]
    IN parse(_handleListBuckets(s, GetReq(AuthFor(accessKeyId), SLASH,
                                          NoQuery)))

\* s3.listObjectsV2({ Bucket: bucket }) of the client with that access key id
listObjectsV2(s, accessKeyId, bucket) ==
    LET parse(out) ==
            IF ~out.ok THEN [ok |-> FALSE, Contents |-> <<>>]
            ELSE [ok |-> TRUE,
                  Name |-> out.xml.Name,
                  KeyCount |-> out.xml.KeyCount,
                  IsTruncated |-> out.xml.IsTruncated,
                  Contents |-> [i \in 1..Len(out.xml.Contents) |->
                                  [out.xml.Contents[i] EXCEPT
                                      !.LastModified = [date |-> @.iso]]]]
    IN parse(_handleGetObjectsV2(s, GetReq(AuthFor(accessKeyId),
                                           SLASH \o bucket, NoQuery),
                                 cuuid(MaxTokens + 1)))

CachePaths == {CachePath, <<<<"x">>, <<"c">>>>}
CacheKeyIds == {AK1, AK2}
CachePuts ==
    {PutReq(<<>>, B1, KB, <<"x">>, <<>>, <<>>),
     PutReq(<<>>, B1, KA, <<"a", "b">>, <<>>, <<>>),
     PutReq(<<>>, B2, KAA, <<"x">>, <<>>, <<>>)}

InitCache == InitWith(Options(KA, <<B1, B2>>, 0))

CacheUpload ==
    /\ ~Live.touchedCache
    /\ \E r \in CachePuts : Request("live", r)

\* the call is recorded with the number of times, up to two, that it has
\* now been made in a row
CacheCall(call, out) ==
    /\ srv["cache"].hostPort = Null
    /\ Cardinality(DOMAIN out.d.files) <= MaxFiles
    /\ srv' = [srv EXCEPT !["live"] = out.s]
    /\ disk' = out.d
    /\ req' = [call EXCEPT !.times =
                  IF req.op = call.op /\ [req EXCEPT !.times = 1] = call
                  THEN 2 ELSE 1]
    /\ resp' = [ok |-> out.ok, err |-> out.err]
    /\ UNCHANGED <<uuidCount, now, wait, walk, conns>>

CacheBuckets ==
    \E filePath \in CachePaths, accessKeyId \in CacheKeyIds :
        LET call(buckets) ==
                CacheCall([op |-> "cacheBucketsToDisk", times |-> 1,
                           filePath |-> filePath,
                           accessKeyId |-> accessKeyId,
                           buckets |-> buckets],
                          cacheBucketsToDisk(Live, disk, filePath,
                                             accessKeyId, buckets))
        IN call(listBuckets(Live, accessKeyId))

CacheObjects ==
    \E filePath \in CachePaths, accessKeyId \in CacheKeyIds,
       bucketName \in {B1, B2} :
        LET call(objects) ==
                /\ objects.ok
                /\ CacheCall([op |-> "cacheObjectsToDisk", times |-> 1,
                              filePath |-> filePath,
                              accessKeyId |-> accessKeyId,
                              bucketName |-> bucketName,
                              objects |-> objects],
                             cacheObjectsToDisk(Live, disk, filePath,
                                 accessKeyId, bucketName, objects))
        IN call(listObjectsV2(Live, accessKeyId, bucketName))

\* server2.bootstrap()
Bootstrap ==
    /\ srv["cache"].hostPort = Null
    /\ \E rev \in BOOLEAN :
          LET start(out) ==
                  /\ srv' = [srv EXCEPT !["cache"] = out.s]
                  /\ req' = [op |-> "bootstrap", instance |-> "cache",
                             rev |-> rev]
                  /\ resp' = [ok |-> out.ok, err |-> out.err]
          IN start(bootstrap(srv["cache"], disk, rev))
    /\ UNCHANGED <<uuidCount, now, disk, wait, walk, conns>>

\* a direct call of populateObjects on the cache instance once it has
\* started
CacheLoad ==
    /\ srv["cache"].hostPort # Null
    /\ \E call \in {<<AK1, B1>>, <<AK1, NoBucket>>, <<AK2, B1>>} :
          PopulateObjects("cache", call[1], call[2], CachedObjectList)

\* a direct call of getFiles on the cache instance once it has started
CacheGetFiles ==
    /\ srv["cache"].hostPort # Null
    /\ \E bucket \in {B1, NoBucket} :
          /\ req' = [op |-> "getFiles", instance |-> "cache",
                     bucket |-> bucket]
          /\ resp' = getFiles(srv["cache"], bucket)
    /\ UNCHANGED <<srv, uuidCount, now, disk, wait, walk, conns>>

NextCache == CacheUpload \/ CacheBuckets \/ CacheObjects \/ Bootstrap
                 \/ CacheLoad \/ CacheGetFiles

SpecCache == InitCache /\ [][NextCache]_vars

\* the (Key, ETag, Size) of each entry of a listing
Triples(contents) ==
    [i \in 1..Len(contents) |->
        <<contents[i].Key, contents[i].ETag, contents[i].Size>>]

BucketsFile(accessKeyId) == CachePath \o <<BUCKETS, accessKeyId \o JSONEXT>>
ObjectsFile(accessKeyId, bucket) ==
    CachePath \o <<OBJECTS, encodeURIComponent(bucket),
                   accessKeyId \o JSONEXT>>

\* every access key id with a cached list-objects result has a cached
\* list-buckets result
CacheComplete ==
    \A a \in CacheKeyIds, b \in {B1, B2} :
        IsFile(disk, ObjectsFile(a, b)) => IsFile(disk, BucketsFile(a))

\* C9: when the cache instance is bootstrapped from a directory that holds,
\* for each access key id it mentions, the list-buckets result of the live
\* instance, the bootstrap succeeds; and after a bootstrap that succeeds,
\* for every bucket whose list-objects result is in the directory under an
\* access key id, list-objects on the cache instance with that access key
\* id returns the same sequence of (Key, ETag, Size) as list-objects on the
\* live instance, in ascending order of the keys.
C9_RoundTrip ==
    [][(srv["cache"].hostPort = Null /\ srv'["cache"].hostPort # Null)
          => /\ CacheComplete => resp'.ok
             /\ resp'.ok
                  => \A a \in CacheKeyIds, b \in {B1, B2} :
                        IsFile(disk, ObjectsFile(a, b))
                            => LET same(cached, original) ==
                                       /\ cached.ok
                                       /\ original.ok
                                       /\ Triples(cached.Contents)
                                              = Triples(original.Contents)
                                       /\ \A i \in 1..(Len(cached.Contents) - 1) :
                                              StrLess(cached.Contents[i].Key,
                                                      cached.Contents[i + 1].Key)
                               IN same(listObjectsV2(srv'["cache"], a, b),
                                       listObjectsV2(Live, a, b))]_vars

\* the cache instance has started from a directory with the listings of
\* both buckets, and lists the two files of b1, uploaded b before a, as a, b
C9_Witness ==
    /\ srv["cache"].hostPort # Null
    /\ req.op = "bootstrap"
    /\ resp.ok
    /\ IsFile(disk, ObjectsFile(AK1, B1))
    /\ IsFile(disk, ObjectsFile(AK1, B2))
    /\ MapKeys(MapGet(MapGet(Live.profiles, DEFAULT), B1).objects) = <<KB, KA>>
    /\ Triples(listObjectsV2(srv["cache"], AK1, B1).Contents)
           = <<<<KA, Md5(<<"a", "b">>), 2>>, <<KB, Md5(<<"x">>), 1>>>>
    /\ Len(listObjectsV2(srv["cache"], AK1, B2).Contents) = 1

\* C10: a call of cacheBucketsToDisk or cacheObjectsToDisk made a second
\* time in a row with the same arguments, after a first call that
\* succeeded, succeeds and leaves the directories, the files and their
\* contents as the first call left them.
C10_CacheWriteIdempotent ==
    [][(/\ req'.op \in {"cacheBucketsToDisk", "cacheObjectsToDisk"}
        /\ req'.times = 2
        /\ resp.ok)
          => /\ resp'.ok
             /\ disk' = disk]_vars

\* both calls have been made twice in a row: the last one was a second
\* cacheObjectsToDisk, next to the file of an earlier cacheBucketsToDisk
C10_Witness ==
    /\ req.op = "cacheObjectsToDisk"
    /\ req.times = 2
    /\ resp.ok
    /\ Len(req.objects.Contents) = 2
    /\ IsFile(disk, ObjectsFile(req.accessKeyId, req.bucketName))
    /\ IsFile(disk, BucketsFile(req.accessKeyId))

(***************************************************************************)
(* Further claims about the namespace and the router, checked under Spec.  *)
(***************************************************************************)
\* the bucket of that name in the profile of that access key id
BucketIn(s, accessKeyId, name) == MapGet(MapGet(s.profiles, accessKeyId), name)

HasBucket(s, accessKeyId, name) ==
    /\ MapHas(s.profiles, accessKeyId)
    /\ MapHas(MapGet(s.profiles, accessKeyId), name)

\* C11 as stated: a call of populateBuckets leaves in every bucket that it
\* names, and that the profile of the access key id already held, the
\* objects the bucket held before the call.
C11_PopulateKeepsObjects ==
    [][req'.op = "populateBuckets"
          => \A i \in 1..Len(req'.buckets.Buckets) :
                HasBucket(Live, req'.accessKeyId, req'.buckets.Buckets[i].Name)
                    => BucketIn(srv'["live"], req'.accessKeyId,
                                req'.buckets.Buckets[i].Name).objects
                           = BucketIn(Live, req'.accessKeyId,
                                      req'.buckets.Buckets[i].Name).objects]_vars

\* the unsupported upload a PUT asks for: 'copy' with an x-amz-copy-source
\* header, 'multipart' with an uploadId parameter, else ''
Unsupported(r) ==
    IF r.headers.copySource # <<>> THEN "copyObject() not supported"
    ELSE IF r.query.uploadId # <<>> THEN "putObjectMultipart not supported"
    ELSE ""

\* C12: a PUT with an x-amz-copy-source header or an uploadId parameter is
\* answered with an error of code InternalError and leaves every profile,
\* bucket and object of the instance as it was; when its path has the shape
\* /:bucket/:key the message is 'copyObject() not supported' with the
\* header and 'putObjectMultipart not supported' with the parameter alone.
C12_UnsupportedUploadStoresNothing ==
    [][(LiveRequestStep /\ req'.r.method = "PUT"
            /\ Unsupported(req'.r) # "")
          => /\ resp'.kind = "Error"
             /\ resp'.body.Code = "InternalError"
             /\ srv' = srv
             /\ IsObjectPut(req'.r)
                    => resp'.body.Message.text = Unsupported(req'.r)]_vars

\* a multipart PUT to an existing bucket that holds an object was refused
C12_Witness ==
    /\ req.op = "request"
    /\ req.r.method = "PUT"
    /\ req.r.query.uploadId # <<>>
    /\ req.r.headers.copySource = <<>>
    /\ BucketOf(req.r) = B1
    /\ resp.kind = "Error"
    /\ resp.body.Message.text = "putObjectMultipart not supported"
    /\ HasBucket(Live, DEFAULT, B1)
    /\ Len(BucketIn(Live, DEFAULT, B1).objects) = 1

\* C13: a PUT is answered by the first check that fails, in the order path
\* shape, copy-source header, uploadId parameter, bucket of the default
\* profile; a failed PUT changes nothing, and a PUT that passes all four
\* is stored under its key in the bucket of the default profile.
C13_PutValidationOrder ==
    [][(LiveRequestStep /\ req'.r.method = "PUT")
          => IF ~IsObjectPut(req'.r)
             THEN /\ resp'.kind = "Error"
                  /\ resp'.body.Code = "InternalError"
                  /\ resp'.body.Message.text
                         = "invalid url, expected /:bucket/:key"
                  /\ srv' = srv
             ELSE IF Unsupported(req'.r) # ""
             THEN /\ resp'.kind = "Error"
                  /\ resp'.body.Code = "InternalError"
                  /\ resp'.body.Message.text = Unsupported(req'.r)
                  /\ srv' = srv
             ELSE IF MissesBucket(Live, req'.r)
             THEN /\ IsNoSuchBucket(resp')
                  /\ srv' = srv
             ELSE /\ resp'.kind = "PutObject"
                  /\ HasBucket(srv'["live"], DEFAULT, BucketOf(req'.r))
                  /\ \E k \in Keys :
                        /\ req'.r.pathname
                               = SLASH \o BucketOf(req'.r) \o SLASH \o k
                        /\ MapHas(BucketIn(srv'["live"], DEFAULT,
                                           BucketOf(req'.r)).objects, k)]_vars

\* a copy to a bucket that does not exist was answered as a copy, not as
\* a missing bucket
C13_Witness ==
    /\ req.op = "request"
    /\ req.r.method = "PUT"
    /\ req.r.headers.copySource # <<>>
    /\ IsObjectPut(req.r)
    /\ BucketOf(req.r) = NoBucket
    /\ ~HasBucket(Live, DEFAULT, NoBucket)
    /\ resp.kind = "Error"
    /\ resp.body.Code = "InternalError"
    /\ resp.body.Message.text = "copyObject() not supported"

\* C18: a GET whose path has more than one segment is answered with the
\* error InternalError 'invalid url, expected /:bucket', whether or not its
\* first segment names a bucket, and leaves the profiles, the buckets, their
\* objects and the token table as they were.
C18_GetObjectRejected ==
    [][(/\ LiveRequestStep
        /\ req'.r.method = "GET"
        /\ Len(Split(req'.r.pathname, SLASH)) > 2)
          => /\ resp'.kind = "Error"
             /\ resp'.body.Code = "InternalError"
             /\ resp'.body.Message.text = "invalid url, expected /:bucket"
             /\ srv' = srv]_vars

\* GET /x/a, whose first segment names no bucket, was answered with the
\* invalid-url error by an instance that holds an object
C18_Witness ==
    /\ req.op = "request"
    /\ req.r.method = "GET"
    /\ req.r.pathname = SLASH \o NoBucket \o SLASH \o KA
    /\ resp.kind = "Error"
    /\ resp.body.Message.text = "invalid url, expected /:bucket"
    /\ HasBucket(Live, DEFAULT, B1)
    /\ BucketIn(Live, DEFAULT, B1).objects # <<>>

\* C19: a request whose method is neither PUT nor GET is answered with the
\* error InternalError 'url not supported: METHOD URL', where METHOD is the
\* method of the request and URL its path and query string, and changes
\* nothing in the instance.
C19_OtherMethodRejected ==
    [][(/\ LiveRequestStep
        /\ req'.r.method \notin {"PUT", "GET"})
          => /\ resp'.kind = "Error"
             /\ resp'.body.Code = "InternalError"
             /\ resp'.body.Message =
                    [text |-> "url not supported: ",
                     method |-> req'.r.method,
                     url |-> [pathname |-> req'.r.pathname,
                              query |-> req'.r.query]]
             /\ srv' = srv]_vars

\* a POST of /b1/a?uploadId=1 was rejected and the message names the
\* method, the path and the query
C19_Witness ==
    /\ req.op = "request"
    /\ req.r.method = "POST"
    /\ req.r.query.uploadId = <<"1">>
    /\ resp.kind = "Error"
    /\ resp.body.Message.method = "POST"
    /\ resp.body.Message.url.pathname = SLASH \o B1 \o SLASH \o KA
    /\ resp.body.Message.url.query.uploadId = <<"1">>

\* the request passes every check made before the bucket lookup and names a
\* bucket its profile does not hold
FailsOnBucket(s, r) ==
    \/ /\ IsObjectPut(r)
       /\ r.headers.copySource = <<>>
       /\ r.query.uploadId = <<>>
       /\ MissesBucket(s, r)
    \/ /\ IsListObjects(r)
       /\ MissesBucket(s, r)

\* C20: every error response has status 500; its Code is NoSuchBucket
\* exactly when the request failed on a missing target bucket, and
\* InternalError for every other failure.
C20_ErrorResponses ==
    [][(LiveRequestStep /\ resp'.kind = "Error")
          => /\ resp'.statusCode = 500
             /\ resp'.body.Code \in {"NoSuchBucket", "InternalError"}
             /\ resp'.body.Code = "NoSuchBucket"
                    <=> FailsOnBucket(Live, req'.r)]_vars

\* two kinds of failure on the same instance: a list-objects of an existing
\* bucket with an unknown token was answered InternalError with status 500,
\* while the bucket x is missing
C20_Witness ==
    /\ req.op = "request"
    /\ IsListObjects(req.r)
    /\ BucketOf(req.r) = B1
    /\ req.r.query.continuationToken # <<>>
    /\ resp.kind = "Error"
    /\ resp.statusCode = 500
    /\ resp.body.Code = "InternalError"
    /\ resp.body.Message.text = "invalid next token"
    /\ ~HasBucket(Live, DEFAULT, NoBucket)

\* the access key id an Authorization header of the model carries
KeyIdOf(auth) ==
    IF auth = AuthFor(AK1) THEN AK1
    ELSE IF auth = AuthFor(AK2) THEN AK2 ELSE DEFAULT

\* the bucket map a list request with that header is to see: the one of
\* its access key id if that is a profile, else the one of 'default', else
\* none
SeenBuckets(s, auth) ==
    IF MapHas(s.profiles, KeyIdOf(auth))
    THEN MapGet(s.profiles, KeyIdOf(auth))
    ELSE IF MapHas(s.profiles, DEFAULT) THEN MapGet(s.profiles, DEFAULT)
    ELSE <<>>

\* the names of a bucket list that a map does not hold yet, each once, in
\* the order of the list
NewNames(map, list) ==
    LET names == [i \in 1..Len(list) |-> list[i].Name]
        first(i) == /\ ~MapHas(map, names[i])
                    /\ \A j \in 1..(i - 1) : names[j] # names[i]
        RECURSIVE pick(_)
        pick(i) == IF i > Len(names) THEN <<>>
                   ELSE IF first(i) THEN <<names[i]>> \o pick(i + 1)
                   ELSE pick(i + 1)
    IN pick(1)

\* C21: list-buckets and list-objects read the bucket map of the profile
\* named by the access key id of the Authorization header if there is such
\* a profile, else the map of 'default', and see no bucket when there is
\* neither. list-buckets answers the names of that map, each once, in the
\* order the buckets were created: populateBuckets appends the names the
\* profile did not hold, in the order of its list, and keeps the place of
\* the others.
C21_ProfileResolution ==
    [][/\ (/\ LiveRequestStep
           /\ req'.r.method = "GET"
           /\ req'.r.pathname = SLASH
           /\ req'.r.query = NoQuery)
             => /\ resp'.kind = "ListBuckets"
                /\ [i \in 1..Len(resp'.body.Buckets) |->
                       resp'.body.Buckets[i].Name]
                       = MapKeys(SeenBuckets(Live,
                                     req'.r.headers.authorization))
                /\ \A i, j \in 1..Len(resp'.body.Buckets) :
                       i # j => resp'.body.Buckets[i].Name
                                    # resp'.body.Buckets[j].Name
       /\ (/\ LiveRequestStep
           /\ IsListObjects(req'.r)
           /\ req'.r.query = NoQuery)
             => IF MapHas(SeenBuckets(Live, req'.r.headers.authorization),
                          BucketOf(req'.r))
                THEN /\ resp'.kind = "ListObjectsV2"
                     /\ {resp'.body.Contents[i].Key :
                            i \in 1..Len(resp'.body.Contents)}
                            = SeqToSet(MapKeys(
                                  MapGet(SeenBuckets(Live,
                                             req'.r.headers.authorization),
                                         BucketOf(req'.r)).objects))
                ELSE IsNoSuchBucket(resp')
       /\ (req'.op = "populateBuckets" /\ req'.instance = "live")
             => MapKeys(MapGet(srv'["live"].profiles, req'.accessKeyId))
                    = (IF MapHas(Live.profiles, req'.accessKeyId)
                       THEN MapKeys(MapGet(Live.profiles, req'.accessKeyId))
                       ELSE <<>>)
                      \o NewNames(IF MapHas(Live.profiles, req'.accessKeyId)
                                  THEN MapGet(Live.profiles,
                                              req'.accessKeyId)
                                  ELSE <<>>,
                                  req'.buckets.Buckets)]_vars

\* the profile a1 was created with the buckets b2, b1 in that order and a
\* list-buckets with the credentials of a1 answered b2, b1, while the
\* default profile holds b1, b2
C21_Witness ==
    /\ req.op = "request"
    /\ req.r.method = "GET"
    /\ req.r.pathname = SLASH
    /\ req.r.headers.authorization = AuthFor(AK1)
    /\ resp.kind = "ListBuckets"
    /\ [i \in 1..Len(resp.body.Buckets) |-> resp.body.Buckets[i].Name]
           = <<B2, B1>>
    /\ MapHas(Live.profiles, DEFAULT)
    /\ MapKeys(MapGet(Live.profiles, DEFAULT)) = <<B1, B2>>

\* the owner info recorded for the first name of a list of bucket names, if
\* any
FirstOwner(s, names) ==
    IF Len(names) > 0 /\ MapHas(s.bucketOwnerInfo, names[1])
    THEN MapGet(s.bucketOwnerInfo, names[1])
    ELSE Undefined

\* C22: list-buckets reports as Owner the owner info recorded for the name
\* of the first bucket of the resolved profile, and the owner with ID '1'
\* and DisplayName 'admin' when none is recorded for it or the profile has
\* no bucket; populateBuckets records the Owner of its list for each name
\* of the list and for no other name.
C22_ListBucketsOwner ==
    [][/\ (/\ LiveRequestStep
           /\ req'.r.method = "GET"
           /\ req'.r.pathname = SLASH
           /\ req'.r.query = NoQuery)
             => resp'.body.Owner =
                    IF FirstOwner(Live,
                           MapKeys(SeenBuckets(Live,
                                       req'.r.headers.authorization)))
                           # Undefined
                    THEN FirstOwner(Live,
                             MapKeys(SeenBuckets(Live,
                                         req'.r.headers.authorization)))
                    ELSE [DisplayName |-> "admin", ID |-> "1"]
       /\ (req'.op = "populateBuckets" /\ req'.instance = "live")
             => \A name \in {B1, B2, NoBucket} :
                    IF \E i \in 1..Len(req'.buckets.Buckets) :
                           req'.buckets.Buckets[i].Name = name
                    THEN /\ MapHas(srv'["live"].bucketOwnerInfo, name)
                         /\ MapGet(srv'["live"].bucketOwnerInfo, name)
                                = req'.buckets.Owner
                    ELSE /\ MapHas(srv'["live"].bucketOwnerInfo, name)
                                = MapHas(Live.bucketOwnerInfo, name)
                         /\ MapHas(Live.bucketOwnerInfo, name)
                                => MapGet(srv'["live"].bucketOwnerInfo, name)
                                       = MapGet(Live.bucketOwnerInfo, name)]_vars

\* the profile a1 holds b2 without owner info and then b1 with the owner
\* 'one', and a list-buckets with its credentials reported the default
\* owner
C22_Witness ==
    /\ req.op = "request"
    /\ req.r.method = "GET"
    /\ req.r.pathname = SLASH
    /\ req.r.headers.authorization = AuthFor(AK1)
    /\ resp.kind = "ListBuckets"
    /\ HasBucket(Live, AK1, B2)
    /\ MapKeys(MapGet(Live.profiles, AK1)) = <<B2, B1>>
    /\ FirstOwner(Live, <<B2>>) = Undefined
    /\ FirstOwner(Live, <<B1>>) = Owner1
    /\ resp.body.Owner = [DisplayName |-> "admin", ID |-> "1"]

\* a list-buckets without credentials reported the owner 'one' recorded
\* for the name of the first bucket of the default profile
C22_OwnerReported ==
    /\ req.op = "request"
    /\ req.r.method = "GET"
    /\ req.r.pathname = SLASH
    /\ req.r.headers.authorization = <<>>
    /\ resp.kind = "ListBuckets"
    /\ Len(resp.body.Buckets) > 0
    /\ resp.body.Buckets[1].Name = B1
    /\ resp.body.Owner = Owner1

(***************************************************************************)
(* Further claims about the pages of a listing, checked under SpecTokens.  *)
(***************************************************************************)
\* the list-objects request req'.r continues the listing of a bucket of
\* its profile with a token that the token table holds
ContinuesListing ==
    /\ LiveRequestStep
    /\ IsListObjects(req'.r)
    /\ ~MissesBucket(Live, req'.r)
    /\ req'.r.query.continuationToken # <<>>
    /\ MapHas(Live.tokens, req'.r.query.continuationToken)

\* C14 as stated: a list-objects request that continues with a token is
\* answered with the page that the same request without start-after
\* parameter would get, the page after the start-after key recorded in the
\* token: its own start-after parameter has no effect.
C14_StartAfterOnlyOnFirstPage ==
    [][ContinuesListing
          => LET same(plain) ==
                     /\ plain.ok
                     /\ resp'.kind = "ListObjectsV2"
                     /\ resp'.body.Contents = plain.xml.Contents
                     /\ resp'.body.IsTruncated = plain.xml.IsTruncated
             IN same(_handleGetObjectsV2(Live,
                         [req'.r EXCEPT !.query.startAfter = <<>>],
                         cuuid(uuidCount + 1)))]_vars

\* the keys of a page
PageKeys(body) == [i \in 1..Len(body.Contents) |-> body.Contents[i].Key]

\* keys is the part of the ascending sequence of the set S that starts
\* after its first offset elements and has at most size elements
IsPageOf(keys, S, offset, size) ==
    /\ Len(keys) = Max(0, Min(size, Cardinality(S) - offset))
    /\ \A i \in 1..Len(keys) :
          /\ keys[i] \in S
          /\ Cardinality({k \in S : StrLess(k, keys[i])}) = offset + i - 1

\* the keys of bucket b1 that a listing with that start-after has: those
\* sorted after the start-after key when it is a key of the bucket, all
\* keys otherwise
KeysAfter(startAfter) ==
    IF startAfter \in KeysOfB1
    THEN {k \in KeysOfB1 : StrLess(startAfter, k)}
    ELSE KeysOfB1

C30_TokenEcho ==
    [][(/\ LiveRequestStep
        /\ IsListObjects(req'.r)
        /\ resp'.kind = "ListObjectsV2")
          => /\ resp'.body.ContinuationToken
                    = req'.r.query.continuationToken
             /\ req'.r.query.continuationToken # <<>>
                    => /\ MapHas(Live.tokens, req'.r.query.continuationToken)
                       /\ resp'.body.NextContinuationToken
                              # req'.r.query.continuationToken]_vars

\* the second page of a listing of three keys echoes the first token and
\* carries the second one
C30_Witness ==
    /\ req.op = "request"
    /\ IsListObjects(req.r)
    /\ req.r.query.continuationToken = cuuid(1)
    /\ resp.kind = "ListObjectsV2"
    /\ resp.body.ContinuationToken = cuuid(1)
    /\ resp.body.NextContinuationToken = cuuid(2)
    /\ PageKeys(resp.body) = <<KAB>>

\* a first page carries no ContinuationToken and a NextContinuationToken
C30_FirstPage ==
    /\ req.op = "request"
    /\ IsListObjects(req.r)
    /\ req.r.query.continuationToken = <<>>
    /\ resp.kind = "ListObjectsV2"
    /\ resp.body.ContinuationToken = <<>>
    /\ resp.body.NextContinuationToken = cuuid(1)

(***************************************************************************)
(* SpecSize: uploads to one bucket and list-objects requests with any      *)
(* max-keys parameter: none, zero, positive, negative, above 1000 or not a *)
(* number, on a first page and with the first token minted.                *)
(***************************************************************************)
SizeGets ==
    {GetReq(<<>>, SLASH \o B1,
            [NoQuery EXCEPT !.maxKeys = m, !.delimiter = d,
                            !.continuationToken = t]) :
        m \in {<<>>, <<"0">>, <<"1">>, <<"-", "1">>,
               <<"2", "0", "0", "0">>, <<"x">>},
        d \in {<<>>, SLASH}, t \in {<<>>}}
    \cup {GetReq(<<>>, SLASH \o B1,
                 [NoQuery EXCEPT !.maxKeys = m,
                                 !.continuationToken = cuuid(1)]) :
            m \in {<<"1">>, <<"-", "1">>}}

SizeList == \E r \in SizeGets : Request("live", r)

NextSize == TokenUpload \/ SizeList

SpecSize == InitTokens /\ [][NextSize]_vars

\* C16 as stated: a list-objects request that is answered with a page
\* echoes MaxKeys 1000 when it has no max-keys and its max-keys when that
\* is a number below 1000, never echoes more than 1000, and the page has no
\* more entries, Contents and CommonPrefixes together, than the MaxKeys it
\* echoes.
C16_PageSize ==
    (/\ req.op = "request"
     /\ IsListObjects(req.r)
     /\ resp.kind = "ListObjectsV2")
        => /\ req.r.query.maxKeys = <<>> => resp.body.MaxKeys = DefaultMaxKeys
           /\ (/\ req.r.query.maxKeys # <<>>
               /\ ~parseInt(req.r.query.maxKeys).nan
               /\ parseInt(req.r.query.maxKeys).val < DefaultMaxKeys)
                  => resp.body.MaxKeys = parseInt(req.r.query.maxKeys).val
           /\ resp.body.MaxKeys <= DefaultMaxKeys
           /\ Len(resp.body.Contents) + Len(resp.body.CommonPrefixes)
                  <= resp.body.MaxKeys

\* the token table entry a list-objects request resumes from: the one of its
\* continuation token, or offset 0 and no start-after on a first page
ResumedFrom(s, r) ==
    IF r.query.continuationToken # <<>>
    THEN MapGet(s.tokens, r.query.continuationToken)
    ELSE [offset |-> 0, startAfter |-> <<>>]

\* the start-after key in force for a list-objects request
StartAfterInForce(s, r) ==
    IF ResumedFrom(s, r).startAfter # <<>>
    THEN ResumedFrom(s, r).startAfter ELSE r.query.startAfter

\* C29 as stated: a list-objects request of bucket b1 without prefix and
\* delimiter that is answered with a page has IsTruncated and a
\* NextContinuationToken exactly when entries of the listing, the keys the
\* start-after key in force leaves, remain beyond the end of the returned
\* slice; the token table then gains that token, recording the end
\* of the slice and the start-after key in force, and gains nothing
\* otherwise; a listing without entries gives a page without entries, not
\* truncated, and no new token.
C29_TruncationMintsToken ==
    [][(/\ LiveRequestStep
        /\ IsListObjects(req'.r)
        /\ BucketOf(req'.r) = B1
        /\ req'.r.query.prefix = <<>>
        /\ req'.r.query.delimiter = <<>>
        /\ resp'.kind = "ListObjectsV2")
          => LET claim(entries, sliceEnd, startAfter, left) ==
                     /\ resp'.body.IsTruncated = (entries > sliceEnd)
                     /\ (resp'.body.NextContinuationToken # <<>>)
                            = (entries > sliceEnd)
                     /\ srv'["live"].tokens
                            = IF entries > sliceEnd
                              THEN MapSet(left,
                                       resp'.body.NextContinuationToken,
                                       [offset |-> sliceEnd,
                                        startAfter |-> startAfter])
                              ELSE left
                     /\ entries = 0
                            => /\ resp'.body.KeyCount = 0
                               /\ ~resp'.body.IsTruncated
                               /\ srv'["live"].tokens = left
             IN claim(Cardinality(KeysAfter(StartAfterInForce(Live, req'.r))),
                      ResumedFrom(Live, req'.r).offset + resp'.body.KeyCount,
                      StartAfterInForce(Live, req'.r),
                      MapDelete(Live.tokens,
                                req'.r.query.continuationToken))]_vars

(***************************************************************************)
(* Further claims about the cache directory, checked under SpecCache.      *)
(***************************************************************************)
\* the subdirectory of the cache directory exists
HasDir(sub) == (CachePath \o <<sub>>) \in disk.dirs

\* a step that bootstraps the cache instance, and so runs populateFromCache
BootstrapStep ==
    srv["cache"].hostPort = Null /\ srv'["cache"].hostPort # Null

\* C27 as stated: when buckets/, objects/ or both are absent,
\* populateFromCache completes without error, and with both absent it
\* leaves the namespace as it was.
C27_ToleratesMissingDirs ==
    [][(BootstrapStep /\ (~HasDir(BUCKETS) \/ ~HasDir(OBJECTS)))
          => /\ resp'.ok
             /\ (~HasDir(BUCKETS) /\ ~HasDir(OBJECTS))
                   => srv'["cache"].profiles = srv["cache"].profiles]_vars

\* C27: populateFromCache takes an absent buckets/ or objects/ for a
\* directory with nothing to load.  With objects/ absent it completes
\* without error and has loaded every bucket listing of buckets/, the
\* buckets empty; with both absent it leaves the namespace as it was.  With
\* buckets/ absent it goes on to load the object listings of objects/, and
\* the error of populateObjects for a listing whose access key id has no
\* profile reaches the caller, the namespace being as it was.
C27_MissingDirsLoadNothing ==
    [][BootstrapStep
          => /\ ~HasDir(OBJECTS)
                   => /\ resp'.ok
                      /\ \A a \in CacheKeyIds :
                            IF IsFile(disk, BucketsFile(a))
                            THEN /\ MapHas(srv'["cache"].profiles, a)
                                 /\ MapKeys(MapGet(srv'["cache"].profiles, a))
                                        = [i \in 1..Len(disk.files[BucketsFile(a)]
                                                            .data.Buckets) |->
                                              disk.files[BucketsFile(a)]
                                                  .data.Buckets[i].Name]
                                 /\ \A b \in SeqToSet(MapValues(
                                        MapGet(srv'["cache"].profiles, a))) :
                                        b = NewS3Bucket
                            ELSE ~MapHas(srv'["cache"].profiles, a)
             /\ (~HasDir(BUCKETS) /\ ~HasDir(OBJECTS))
                   => srv'["cache"].profiles = srv["cache"].profiles
             /\ (/\ ~HasDir(BUCKETS)
                 /\ \E a \in CacheKeyIds, b \in {B1, B2} :
                        IsFile(disk, ObjectsFile(a, b)))
                   => /\ ~resp'.ok
                      /\ resp'.err.message.text = "invalid accessKeyId"
                      /\ srv'["cache"].profiles = srv["cache"].profiles]_vars

\* the cache instance was bootstrapped from a directory that has buckets/
\* with the listing of a1 and no objects/: it holds the empty buckets b1
\* and b2 under a1
C27_Witness ==
    /\ srv["cache"].hostPort # Null
    /\ req.op = "bootstrap"
    /\ resp.ok
    /\ HasDir(BUCKETS)
    /\ ~HasDir(OBJECTS)
    /\ IsFile(disk, BucketsFile(AK1))
    /\ MapHas(srv["cache"].profiles, AK1)
    /\ MapKeys(MapGet(srv["cache"].profiles, AK1)) = <<B1, B2>>

\* C28: populateObjects fails when its access key id has no profile or the
\* profile does not hold the bucket, and then leaves the instance as it
\* was: no object, bucket or profile is added; otherwise it succeeds and
\* the bucket holds the keys of the listing.  populateFromCache loads the
\* bucket listings before the object listings: whatever the order in which
\* the directories are read, a cache directory that has the bucket listing
\* of every access key id it has an object listing for is loaded without
\* error, every object listing into its bucket.
C28_PopulateObjectsNeedsBucket ==
    [][/\ (req'.op = "populateObjects" /\ req'.instance = "cache")
             => IF HasBucket(srv["cache"], req'.accessKeyId, req'.bucketName)
                THEN /\ resp'.ok
                     /\ \A i \in 1..Len(req'.objects.Contents) :
                            MapHas(BucketIn(srv'["cache"], req'.accessKeyId,
                                            req'.bucketName).objects,
                                   req'.objects.Contents[i].Key)
                ELSE /\ ~resp'.ok
                     /\ resp'.err.message.text =
                            IF MapHas(srv["cache"].profiles, req'.accessKeyId)
                            THEN "invalid bucketName"
                            ELSE "invalid accessKeyId"
                     /\ srv' = srv
       /\ (BootstrapStep /\ CacheComplete)
             => /\ resp'.ok
                /\ \A a \in CacheKeyIds, b \in {B1, B2} :
                       IsFile(disk, ObjectsFile(a, b))
                           => /\ HasBucket(srv'["cache"], a, b)
                              /\ SeqToSet(MapKeys(
                                     BucketIn(srv'["cache"], a, b).objects))
                                     = {disk.files[ObjectsFile(a, b)]
                                            .objects.Contents[i].Key :
                                        i \in 1..Len(disk.files[
                                                ObjectsFile(a, b)]
                                                .objects.Contents)}]_vars

\* the cache instance holds the profile a1, loaded from the cache
\* directory, and a call of populateObjects for its bucket x has failed
C28_Witness ==
    /\ req.op = "populateObjects"
    /\ req.accessKeyId = AK1
    /\ req.bucketName = NoBucket
    /\ ~resp.ok
    /\ resp.err.message.text = "invalid bucketName"
    /\ HasBucket(srv["cache"], AK1, B1)
    /\ BucketIn(srv["cache"], AK1, B1).objects # <<>>

\* C35: getFiles of a bucket name returns the objects of the bucket of
\* that name in the first profile, in the order the profiles were created,
\* that has one, whatever the later profiles hold under that name, and no
\* object when no profile has one; the call changes nothing.
C35_FirstProfileWins ==
    [][(req'.op = "getFiles" /\ req'.instance = "cache")
          => LET first(s, holders) ==
                     IF holders = {} THEN resp'.objects = <<>>
                     ELSE \E i \in holders :
                             /\ \A j \in holders : i <= j
                             /\ resp'.objects
                                    = getObjects(MapGet(s.profiles[i].v,
                                                        req'.bucket))
             IN /\ first(srv["cache"],
                         {i \in 1..Len(srv["cache"].profiles) :
                             MapHas(srv["cache"].profiles[i].v,
                                    req'.bucket)})
                /\ srv' = srv
                /\ disk' = disk]_vars

\* the cache instance has loaded the profile a2 before the profile a1, both
\* hold a bucket b1, only the one of a1 holds objects, and getFiles of b1
\* has returned none
C35_Witness ==
    /\ req.op = "getFiles"
    /\ req.instance = "cache"
    /\ req.bucket = B1
    /\ MapKeys(srv["cache"].profiles) = <<AK2, AK1>>
    /\ HasBucket(srv["cache"], AK1, B1)
    /\ HasBucket(srv["cache"], AK2, B1)
    /\ Len(BucketIn(srv["cache"], AK1, B1).objects) > 0
    /\ BucketIn(srv["cache"], AK2, B1).objects = <<>>
    /\ resp.objects = <<>>

(***************************************************************************)
(* SpecConns: HTTP requests in flight at once.  _handleServerRequest runs  *)
(* when the head of a request has arrived: it makes the array buffers of   *)
(* that request and registers the 'data' and 'end' listeners.  The chunks  *)
(* of the bodies then arrive in any sizes and any interleaving, and a      *)
(* request is handled and answered in its 'end' event.  Connections are    *)
(* numbered in the order in which their requests arrive.                   *)
(***************************************************************************)
\* mutant: one array of buffers is shared by the requests in flight
onData_Shared(cs, c, chunk) ==
    [k \in DOMAIN cs |->
        IF cs[k].pc = "open"
        THEN [cs[k] EXCEPT !.buffers = Append(@, chunk)] ELSE cs[k]]

\* req.on('data', chunk => buffers.push(chunk)) of request c
onData(cs, c, chunk) == [cs EXCEPT ![c].buffers = Append(@, chunk)]

\* mutant: the 'end' listener ends the response a second time
onEnd_Twice(cs, c, res) ==
    [cs EXCEPT ![c].pc = "answered",
               ![c].responses = Append(Append(@, res), res)]

\* the response written in the 'end' listener of request c
onEnd(cs, c, res) ==
    [cs EXCEPT ![c].pc = "answered", ![c].responses = Append(@, res)]

ReqStart ==
    \E c \in 1..MaxConns :
        /\ conns[c].pc = "idle"
        /\ \A d \in 1..(c - 1) : conns[d].pc # "idle"
        /\ \E r \in {PutReq(<<>>, B1, k, body, <<>>, <<>>) :
                        k \in {KA, KAB, KB}, body \in Bodies}
                    \cup {PutReq(<<>>, NoBucket, KA, <<"x">>, <<>>, <<>>),
                          GetReq(<<>>, SLASH \o B1, NoQuery),
                          OtherReq("POST", <<>>, SLASH \o B1)} :
              conns' = [conns EXCEPT ![c] = [pc |-> "open", r |-> r,
                                            buffers |-> <<>>,
                                            rest |-> r.body,
                                            responses |-> <<>>]]
        /\ UNCHANGED <<srv, uuidCount, now, req, resp, disk, wait, walk>>

\* a chunk of the body of request c arrives
ReqData ==
    \E c \in 1..MaxConns :
        /\ conns[c].pc = "open"
        /\ \E n \in 1..Len(conns[c].rest) :
              conns' = [onData(conns, c, SubSeq(conns[c].rest, 1, n))
                           EXCEPT ![c].rest = StrDrop(conns[c].rest, n)]
        /\ UNCHANGED <<srv, uuidCount, now, req, resp, disk, wait, walk>>

\* the body of request c has arrived whole: Buffer.concat(buffers) is
\* handled and the response is written
ReqEnd ==
    \E c \in 1..MaxConns :
        LET RECURSIVE concat(_)
            concat(buffers) == IF Len(buffers) = 0 THEN <<>>
                               ELSE buffers[1] \o concat(Tail(buffers))
        IN /\ conns[c].pc = "open"
           /\ conns[c].rest = <<>>
           /\ Handle("live", [conns[c].r EXCEPT
                                 !.body = concat(conns[c].buffers)])
           /\ conns' = onEnd(conns, c, resp')
           /\ UNCHANGED <<now, disk, wait, walk>>

NextConns == ReqStart \/ ReqData \/ ReqEnd

SpecConns == InitTokens /\ [][NextConns]_vars

\* the same with the events the HTTP layer owes a request: the rest of its
\* body, then 'end'.  The second condition is WF_vars(ReqEnd) written out:
\* ReqEnd is enabled exactly when some request has its whole body and no
\* response yet, since the guards of Handle hold in every state of
\* SpecConns, and its steps are those that answer a request.
FairConns ==
    /\ SpecConns
    /\ WF_vars(ReqData)
    /\ \/ []<>(~\E c \in 1..MaxConns :
                   conns[c].pc = "open" /\ conns[c].rest = <<>>)
       \/ []<><<\E c \in 1..MaxConns :
                   conns[c].pc = "open" /\ conns'[c].pc = "answered">>_vars

(***************************************************************************)
(* Claims about requests in flight, checked under SpecConns and FairConns. *)
(***************************************************************************)
\* the requests of the connections that upload to the bucket b1
UploadsTo(cs) ==
    {c \in DOMAIN cs : /\ cs[c].pc # "idle"
                       /\ IsObjectPut(cs[c].r)
                       /\ BucketOf(cs[c].r) = B1}

\* the objects of bucket b1 of the default profile of instance s
ObjectsOfB1(s) == MapGet(MapGet(s.profiles, DEFAULT), B1).objects

\* every request that has arrived is answered, and the uploads to b1 among
\* them have pairwise distinct keys
AllCompleted(cs) ==
    /\ \A c \in DOMAIN cs : cs[c].pc # "open"
    /\ \A c, d \in UploadsTo(cs) : c # d => KeyOf(cs[c].r) # KeyOf(cs[d].r)

\* C24: whatever the order in which the chunks of concurrent uploads to one
\* bucket arrive and the uploads complete, the completion of an upload
\* stores under its key the body sent in that request and leaves every
\* other object of the bucket as it was; once every upload has completed
\* and their keys are pairwise distinct, the bucket holds exactly their
\* keys, each with the content of its own request.
C24_ConcurrentUploads ==
    [][/\ \A c \in 1..MaxConns :
             (/\ conns[c].pc = "open"
              /\ conns'[c].pc = "answered"
              /\ c \in UploadsTo(conns))
                => /\ resp'.kind = "PutObject"
                   /\ MapHas(ObjectsOfB1(srv'["live"]), KeyOf(conns[c].r))
                   /\ MapGet(ObjectsOfB1(srv'["live"]),
                             KeyOf(conns[c].r)).content = conns[c].r.body
                   /\ SeqToSet(MapKeys(ObjectsOfB1(srv'["live"])))
                          = SeqToSet(MapKeys(ObjectsOfB1(Live)))
                                \cup {KeyOf(conns[c].r)}
                   /\ \A k \in SeqToSet(MapKeys(ObjectsOfB1(Live))) :
                          k # KeyOf(conns[c].r)
                              => MapGet(ObjectsOfB1(srv'["live"]), k)
                                     = MapGet(ObjectsOfB1(Live), k)
       /\ AllCompleted(conns')
             => /\ SeqToSet(MapKeys(ObjectsOfB1(srv'["live"])))
                       = {KeyOf(conns'[c].r) : c \in UploadsTo(conns')}
                /\ \A c \in UploadsTo(conns') :
                       MapGet(ObjectsOfB1(srv'["live"]),
                              KeyOf(conns'[c].r)).content
                           = conns'[c].r.body]_vars

\* two uploads with distinct keys and different bodies have completed in
\* the reverse of the order in which they arrived, and the body of the
\* first one came in two chunks
C24_Witness ==
    /\ \A c \in 1..2 : conns[c].pc = "answered"
    /\ AllCompleted(conns)
    /\ {1, 2} \subseteq UploadsTo(conns)
    /\ KeyOf(conns[1].r) # KeyOf(conns[2].r)
    /\ SubSeq(MapKeys(ObjectsOfB1(Live)), 1, 2)
           = <<KeyOf(conns[2].r), KeyOf(conns[1].r)>>
    /\ Len(conns[1].buffers) = 2
    /\ conns[2].r.body # conns[1].r.body

\* C25: a request has no response while its body is arriving and exactly
\* one from its 'end' event on; the response is written in the step that
\* handles the whole body, and is a success response with status 200 or the
\* error document with status 500; every request whose body has arrived
\* whole is answered.
C25_OneResponse ==
    /\ [](\A c \in 1..MaxConns :
             /\ conns[c].pc \in {"idle", "open"} => conns[c].responses = <<>>
             /\ conns[c].pc = "answered"
                   => /\ Len(conns[c].responses) = 1
                      /\ conns[c].rest = <<>>
                      /\ \/ /\ conns[c].responses[1].statusCode = 200
                            /\ conns[c].responses[1].kind
                                   \in {"PutObject", "ListBuckets",
                                        "ListObjectsV2"}
                         \/ /\ conns[c].responses[1].statusCode = 500
                            /\ conns[c].responses[1].kind = "Error"
                            /\ conns[c].responses[1].body.Code
                                   \in {"NoSuchBucket", "InternalError"})
    /\ [][\A c \in 1..MaxConns :
             conns'[c].responses # conns[c].responses
                => /\ conns[c].pc = "open"
                   /\ conns[c].rest = <<>>
                   /\ req'.r.body = conns[c].r.body
                   /\ conns'[c].responses = <<resp'>>]_vars
    /\ \A c \in 1..MaxConns :
           (conns[c].pc = "open" /\ conns[c].rest = <<>>)
               ~> (conns[c].pc = "answered")

\* an upload to a missing bucket has been answered with the error document
\* after its body arrived in one chunk, and an upload that arrived later on
\* another connection and came in two chunks has been answered with success
C25_Witness ==
    /\ conns[1].pc = "answered"
    /\ conns[1].responses[1].kind = "Error"
    /\ conns[1].responses[1].body.Code = "NoSuchBucket"
    /\ Len(conns[1].buffers) = 1
    /\ conns[2].pc = "answered"
    /\ conns[2].responses[1].kind = "PutObject"
    /\ Len(conns[2].buffers) = 2

(***************************************************************************)
(* Further claims about the files of a bucket, checked under SpecWait,     *)
(* whose instance has the prefix 'a'.                                      *)
(***************************************************************************)
\* C23: getFiles(bucket) returns exactly the objects of the bucket whose
\* key starts with the prefix of the instance, each once, and an empty list
\* of objects for a bucket that does not exist; the call changes nothing in
\* the instance.
C23_GetFiles ==
    [][req'.op = "getFiles"
          => /\ srv' = srv
             /\ IF HasBucket(Live, DEFAULT, req'.bucket)
                THEN /\ SeqToSet(resp'.objects)
                            = {o \in SeqToSet(MapValues(
                                         BucketIn(Live, DEFAULT,
                                                  req'.bucket).objects)) :
                                  StartsWith(o.key, Live.prefix)}
                     /\ \A i, j \in 1..Len(resp'.objects) :
                            i # j => resp'.objects[i].key
                                         # resp'.objects[j].key
                ELSE resp' = [objects |-> <<>>]]_vars

\* the bucket holds a, a/a and b, and getFiles returned the two objects
\* whose key starts with 'a'
C23_Witness ==
    /\ req.op = "getFiles"
    /\ req.bucket = B1
    /\ KeysOfB1 = {KA, KAA, KB}
    /\ {resp.objects[i].key : i \in 1..Len(resp.objects)} = {KA, KAA}

\* getFiles of the bucket x, which no profile holds, returned no object
C23_MissingBucket ==
    /\ req.op = "getFiles"
    /\ req.bucket = NoBucket
    /\ resp = [objects |-> <<>>]
    /\ KeysOfB1 # {}

(***************************************************************************)
(* SpecFold: uploads to one bucket and list-objects requests that combine  *)
(* a start-after key with a delimiter, on a first page and with the first  *)
(* token minted.                                                           *)
(***************************************************************************)
FoldList ==
    \E d \in {<<>>, SLASH}, sa \in {<<>>, KA, KAB},
       m \in {<<>>, <<"1">>}, t \in {<<>>, cuuid(1)} :
        Request("live",
                GetReq(<<>>, SLASH \o B1,
                       [NoQuery EXCEPT !.delimiter = d, !.startAfter = sa,
                                       !.maxKeys = m,
                                       !.continuationToken = t]))

NextFold == TokenUpload \/ FoldList

SpecFold == InitTokens /\ [][NextFold]_vars

\* the key is folded into a common prefix by the delimiter
Folded(key, delimiter) == IndexOf(key, delimiter) # 0

\* C31: a list-objects request of bucket b1 with a delimiter and a
\* start-after that is a key of the bucket folded into a common prefix gets
\* the answer of the same request without start-after: the start-after
\* matches nothing.  A first, unbounded page whose start-after is a key
\* that is listed itself holds the entries after it: the plain keys sorted
\* after it and the common prefixes whose folded keys are all sorted after
\* it.
C31_StartAfterSkipsFolded ==
    [][(/\ LiveRequestStep
        /\ IsListObjects(req'.r)
        /\ req'.r.query.delimiter # <<>>
        /\ req'.r.query.prefix = <<>>
        /\ req'.r.query.startAfter \in KeysOfB1)
          => LET same(plain) ==
                     IF plain.ok
                     THEN /\ resp'.kind = "ListObjectsV2"
                          /\ resp'.body = plain.xml
                     ELSE resp'.kind = "Error"
                 after(sa, d) ==
                     /\ resp'.kind = "ListObjectsV2"
                     /\ SeqToSet(PageKeys(resp'.body))
                            = {k \in KeysOfB1 :
                                  ~Folded(k, d) /\ StrLess(sa, k)}
                     /\ {resp'.body.CommonPrefixes[i].Prefix :
                            i \in 1..Len(resp'.body.CommonPrefixes)}
                            = {CoveringPrefix(k, <<>>, d) :
                                  k \in {f \in KeysOfB1 :
                                     /\ Folded(f, d)
                                     /\ \A g \in KeysOfB1 :
                                           StartsWith(g,
                                               CoveringPrefix(f, <<>>, d))
                                               => StrLess(sa, g)}}
             IN IF Folded(req'.r.query.startAfter, req'.r.query.delimiter)
                THEN same(_handleGetObjectsV2(Live,
                              [req'.r EXCEPT !.query.startAfter = <<>>],
                              cuuid(uuidCount + 1)))
                ELSE (/\ req'.r.query.continuationToken = <<>>
                      /\ req'.r.query.maxKeys = <<>>)
                         => after(req'.r.query.startAfter,
                                  req'.r.query.delimiter)]_vars

\* a listing with delimiter '/' and start-after 'a/b', a key folded into
\* the common prefix 'a/', holds the key before it and the common prefix
C31_Witness ==
    /\ req.op = "request"
    /\ IsListObjects(req.r)
    /\ req.r.query.delimiter = SLASH
    /\ req.r.query.startAfter = KAB
    /\ req.r.query.maxKeys = <<>>
    /\ KeysOfB1 = {KA, KAB, KB}
    /\ resp.kind = "ListObjectsV2"
    /\ PageKeys(resp.body) = <<KA, KB>>
    /\ Len(resp.body.CommonPrefixes) = 1
    /\ resp.body.CommonPrefixes[1].Prefix = <<"a", "/">>

\* the same listing with start-after 'a', a key listed itself, starts
\* after it
C31_PlainStartAfter ==
    /\ req.op = "request"
    /\ IsListObjects(req.r)
    /\ req.r.query.delimiter = SLASH
    /\ req.r.query.startAfter = KA
    /\ req.r.query.maxKeys = <<>>
    /\ KeysOfB1 = {KA, KAB, KB}
    /\ resp.kind = "ListObjectsV2"
    /\ PageKeys(resp.body) = <<KB>>
    /\ Len(resp.body.CommonPrefixes) = 1

(***************************************************************************)
(* Further claims about listings with a delimiter, checked under SpecWalk. *)
(***************************************************************************)
\* the entry that lists a key: the key itself, or the common prefix that
\* covers it
EntryOf(key, prefix, delimiter) ==
    IF IndexOf(Remainder(key, prefix), delimiter) = 0 THEN key
    ELSE CoveringPrefix(key, prefix, delimiter)

\* the keys of bucket b1 that a request with that prefix lists
Matching(prefix) == {k \in KeysOfB1 : StartsWith(k, prefix)}

\* the first key, in sorted order, that the entry lists
FirstKey(entry, prefix, delimiter) ==
    CHOOSE k \in Matching(prefix) :
        /\ EntryOf(k, prefix, delimiter) = entry
        /\ \A m \in Matching(prefix) :
              EntryOf(m, prefix, delimiter) = entry => ~StrLess(m, k)

\* the number of entries before the entry in the merged sequence: those
\* whose first key is sorted before its first key
RankOf(entry, prefix, delimiter) ==
    Cardinality({e \in {EntryOf(k, prefix, delimiter) :
                           k \in Matching(prefix)} :
                    StrLess(FirstKey(e, prefix, delimiter),
                            FirstKey(entry, prefix, delimiter))})

\* C32: a page of a listing of bucket b1 with a delimiter holds the
\* entries of the merged sequence, plain keys and common prefixes ordered
\* by their first key, from the offset of the request up to max-keys
\* entries, a common prefix counting as one; Contents and CommonPrefixes
\* are each in that order, and KeyCount is the number of both together.
C32_MergedSequence ==
    [][(/\ LiveRequestStep
        /\ IsListObjects(req'.r)
        /\ req'.r.query.delimiter # <<>>
        /\ resp'.kind = "ListObjectsV2")
          => LET names(body) ==
                     PageKeys(body) \o
                         [i \in 1..Len(body.CommonPrefixes) |->
                             body.CommonPrefixes[i].Prefix]
                 ordered(seq, p, d) ==
                     \A i, j \in 1..Len(seq) :
                         i < j => RankOf(seq[i], p, d) < RankOf(seq[j], p, d)
                 page(body, p, d, offset, M) ==
                     /\ SeqToSet(names(body))
                            = {e \in {EntryOf(k, p, d) : k \in Matching(p)} :
                                  /\ RankOf(e, p, d) >= offset
                                  /\ RankOf(e, p, d) < offset + M}
                     /\ SeqToSet(PageKeys(body)) \subseteq Matching(p)
                     /\ \A i \in 1..Len(body.CommonPrefixes) :
                           body.CommonPrefixes[i].Prefix \notin Matching(p)
                     /\ ordered(PageKeys(body), p, d)
                     /\ ordered([i \in 1..Len(body.CommonPrefixes) |->
                                    body.CommonPrefixes[i].Prefix], p, d)
                     /\ body.KeyCount
                            = Len(body.Contents) + Len(body.CommonPrefixes)
                     /\ body.KeyCount = Cardinality(SeqToSet(names(body)))
                     /\ body.KeyCount <= M
             IN page(resp'.body, req'.r.query.prefix,
                     req'.r.query.delimiter,
                     ResumedFrom(Live, req'.r).offset,
                     IF req'.r.query.maxKeys = <<>> THEN DefaultMaxKeys
                     ELSE parseInt(req'.r.query.maxKeys).val)]_vars

\* the second page of a listing of the keys a, a/b, b in pages of one entry
\* holds the common prefix a/ alone, between the keys a and b
C32_Witness ==
    /\ walk.pc = "walking"
    /\ walk.request.delimiter = SLASH
    /\ walk.request.prefix = <<>>
    /\ walk.request.maxKeys = <<"1">>
    /\ walk.pages = 2
    /\ KeysOfB1 = {KA, KAB, KB}
    /\ walk.contents = <<KA>>
    /\ resp.kind = "ListObjectsV2"
    /\ resp.body.KeyCount = 1
    /\ resp.body.Contents = <<>>
    /\ resp.body.CommonPrefixes = <<[Prefix |-> <<"a", "/">>]>>
    /\ resp.body.IsTruncated

C34_RouteSelection ==
    [][LiveRequestStep
          => IF req'.r.method = "PUT"
             THEN resp'.kind \in {"PutObject", "Error"}
             ELSE IF req'.r.method = "GET" /\ req'.r.pathname = SLASH
             THEN resp'.kind = "ListBuckets"
             ELSE IF /\ req'.r.method = "GET"
                     /\ Len(Split(req'.r.pathname, SLASH)) = 2
             THEN resp'.kind \in {"ListObjectsV2", "Error"}
             ELSE resp'.kind = "Error"]_vars

\* a list-objects request without parameters that directly follows a
\* successful PUT to the same bucket and carries the same Authorization
\* header
ListsAfterOwnPut ==
    /\ req.op = "request"
    /\ req.instance = "live"
    /\ req.r.method = "PUT"
    /\ resp.kind = "PutObject"
    /\ LiveRequestStep
    /\ IsListObjects(req'.r)
    /\ req'.r.query = NoQuery
    /\ BucketOf(req'.r) = BucketOf(req.r)
    /\ req'.r.headers.authorization = req.r.headers.authorization

\* C36 as stated, for the listing that directly follows the upload: a
\* list-objects without parameters that is answered with a page, and that
\* follows a successful PUT of a key to the same bucket with the same
\* credentials, holds that key, whichever profiles have been loaded.
C36_ReadYourWrites ==
    [][(ListsAfterOwnPut /\ resp'.kind = "ListObjectsV2")
          => KeyOf(req.r) \in SeqToSet(PageKeys(resp'.body))]_vars

\* C36 amended: a list-objects without parameters whose credentials name
\* no loaded profile, for a bucket of the 'default' profile, is answered
\* with a page that holds exactly the keys of that bucket, which are the
\* keys uploaded to it; when it directly follows a successful PUT to the
\* bucket with the same credentials it holds the key of that PUT.
C36_ReadYourWritesDefault ==
    [][(/\ LiveRequestStep
        /\ IsListObjects(req'.r)
        /\ req'.r.query = NoQuery
        /\ ~MapHas(Live.profiles, KeyIdOf(req'.r.headers.authorization))
        /\ HasBucket(Live, DEFAULT, BucketOf(req'.r)))
          => /\ resp'.kind = "ListObjectsV2"
             /\ SeqToSet(PageKeys(resp'.body))
                    = SeqToSet(MapKeys(BucketIn(Live, DEFAULT,
                                          BucketOf(req'.r)).objects))
             /\ ListsAfterOwnPut
                    => KeyOf(req.r) \in SeqToSet(PageKeys(resp'.body))]_vars

\* a client with the access key a1, for which no profile is loaded, has
\* listed b1 and got the two keys uploaded to it
C36_Witness ==
    /\ req.op = "request"
    /\ IsListObjects(req.r)
    /\ req.r.query = NoQuery
    /\ req.r.headers.authorization = AuthFor(AK1)
    /\ ~MapHas(Live.profiles, AK1)
    /\ resp.kind = "ListObjectsV2"
    /\ PageKeys(resp.body) = <<KA, KAB>>

(***************************************************************************)
(* SpecCross: uploads to two buckets of the 'default' profile and          *)
(* list-objects requests of either bucket in pages of one key, without a   *)
(* token or with one of the first two tokens minted.                       *)
(***************************************************************************)
CrossUpload ==
    \E b \in {B1, B2}, k \in {KA, KB} :
        Request("live", PutReq(<<>>, b, k, <<"x">>, <<>>, <<>>))

CrossList ==
    \E b \in {B1, B2}, t \in {<<>>, cuuid(1), cuuid(2)} :
        Request("live",
                GetReq(<<>>, SLASH \o b,
                       [NoQuery EXCEPT !.maxKeys = <<"1">>,
                                       !.continuationToken = t]))

SpecCross ==
    InitWith(Options(<<>>, <<B1, B2>>, 0)) /\ [][CrossUpload \/ CrossList]_vars

\* C37 as stated, for the request that directly follows the page: a
\* list-objects of one bucket that carries the NextContinuationToken of a
\* page of another bucket is answered with an error, so the offset of that
\* token is never applied to its entries.
C37_TokenBoundToListing ==
    [][(/\ req.op = "request"
        /\ IsListObjects(req.r)
        /\ resp.kind = "ListObjectsV2"
        /\ resp.body.NextContinuationToken # <<>>
        /\ LiveRequestStep
        /\ IsListObjects(req'.r)
        /\ req'.r.query.continuationToken = resp.body.NextContinuationToken
        /\ BucketOf(req'.r) # BucketOf(req.r))
          => resp'.kind = "Error"]_vars

(***************************************************************************)
(* A further claim about the page size, checked under SpecSize.            *)
(***************************************************************************)
\* C39 as stated: the token a page mints records an offset strictly
\* greater than the offset the page started from, whatever max-keys the
\* request carries, so that a walk along the tokens comes to an end.
C39_OffsetsGrow ==
    [][(/\ LiveRequestStep
        /\ IsListObjects(req'.r)
        /\ resp'.kind = "ListObjectsV2"
        /\ resp'.body.NextContinuationToken # <<>>)
          => /\ MapHas(srv'["live"].tokens,
                       resp'.body.NextContinuationToken)
             /\ MapGet(srv'["live"].tokens,
                       resp'.body.NextContinuationToken).offset
                    > ResumedFrom(Live, req'.r).offset]_vars

(***************************************************************************)
(* SpecOwners: bucket listings are loaded for two access key ids, each     *)
(* with the owner of its account, and clients list the buckets.            *)
(***************************************************************************)
\* the owner every bucket listing of the access key id is loaded with
LoadedOwner(accessKeyId) == IF accessKeyId = AK1 THEN Owner1 ELSE Owner2

OwnersLoad ==
    \E accessKeyId \in {AK1, AK2},
       names \in {<<B1>>, <<B2, B1>>} :
        PopulateBuckets("live", accessKeyId,
            [Buckets |-> [i \in 1..Len(names) |-> [Name |-> names[i]]],
             Owner |-> LoadedOwner(accessKeyId)])

SpecOwners ==
    InitWith(Options(<<>>, <<B1>>, 0)) /\ [][OwnersLoad \/ GetRequest]_vars

\* a list-buckets request with the credentials of a loaded profile
ListsLoadedProfile ==
    /\ LiveRequestStep
    /\ req'.r.method = "GET"
    /\ req'.r.pathname = SLASH
    /\ req'.r.query = NoQuery
    /\ KeyIdOf(req'.r.headers.authorization) \in {AK1, AK2}
    /\ MapHas(Live.profiles, KeyIdOf(req'.r.headers.authorization))

\* C40 as stated: list-buckets with the credentials of a loaded profile
\* reports the owner that the bucket listings of that profile were loaded
\* with, whatever other profiles were loaded later.
C40_OwnerIsolation ==
    [][ListsLoadedProfile
          => resp'.body.Owner
                 = LoadedOwner(KeyIdOf(req'.r.headers.authorization))]_vars

\* C40 amended: the owner is recorded per bucket name, for all profiles
\* together.  After populateBuckets, list-buckets reports the owner of that
\* call for every loaded profile whose first bucket the call names, the
\* profiles of other access key ids included, and the owner it reported
\* before for the others; a list-buckets request reports the owner
\* recorded for the name of the first bucket of its profile.
C40_OwnerLastWriteWins ==
    [][/\ (req'.op = "populateBuckets" /\ req'.instance = "live")
             => \A p \in {AK1, AK2} :
                   MapHas(srv'["live"].profiles, p)
                       => LET reported(s) ==
                                  _handleListBuckets(s,
                                      GetReq(AuthFor(p), SLASH,
                                             NoQuery)).Owner
                              first ==
                                  MapKeys(MapGet(srv'["live"].profiles,
                                                 p))[1]
                          IN IF \E i \in 1..Len(req'.buckets.Buckets) :
                                    req'.buckets.Buckets[i].Name = first
                             THEN reported(srv'["live"]) = req'.buckets.Owner
                             ELSE /\ MapHas(Live.profiles, p)
                                  /\ reported(srv'["live"]) = reported(Live)
       /\ ListsLoadedProfile
             => resp'.body.Owner
                    = MapGet(Live.bucketOwnerInfo,
                          MapKeys(MapGet(Live.profiles,
                              KeyIdOf(req'.r.headers.authorization)))[1])]_vars

\* the profile a1 was loaded before the profile a2, both hold b1 as first
\* bucket, and list-buckets with the credentials of a1 has reported the
\* owner loaded with a2
C40_Witness ==
    /\ req.op = "request"
    /\ req.r.method = "GET"
    /\ req.r.pathname = SLASH
    /\ req.r.headers.authorization = AuthFor(AK1)
    /\ MapKeys(Live.profiles) = <<DEFAULT, AK1, AK2>>
    /\ MapKeys(MapGet(Live.profiles, AK1)) = <<B1>>
    /\ MapKeys(MapGet(Live.profiles, AK2)) = <<B1>>
    /\ resp.kind = "ListBuckets"
    /\ resp.body.Owner = Owner2

(***************************************************************************)
(* SpecReads: the four read operations, list-buckets, list-objects,        *)
(* getFiles and waitForFiles, interleaved with uploads and the passing of  *)
(* time.                                                                   *)
(***************************************************************************)
\* the files a and b are uploaded, in this order
ReadsUpload ==
    \E k \in {KA, KB} :
        /\ k \notin KeysOfB1
        /\ k = KB => KA \in KeysOfB1
        /\ Request("live", PutReq(<<>>, B1, k, <<"x">>, <<>>, <<>>))

ReadsList ==
    \/ Request("live", GetReq(<<>>, SLASH, NoQuery))
    \/ \E t \in {<<>>, cuuid(1)} :
          Request("live", GetReq(<<>>, SLASH \o B1,
              [NoQuery EXCEPT !.maxKeys = <<"1">>,
                              !.continuationToken = t]))

SpecReads ==
    InitWait /\ [][ReadsUpload \/ WaitCall \/ WaitWake \/ Tick \/ GetFiles
                      \/ ReadsList]_vars

\* C38: list-buckets, getFiles and waitForFiles, each poll of its loop
\* included, change no state of an instance nor of the disk; list-objects
\* changes nothing but the token table, from which it removes the token it
\* consumed and to which it adds at most one token, every other token
\* staying as it was.
C38_ReadsDoNotMutate ==
    [][/\ (req'.op \in {"getFiles", "waitForFiles"} \/ wait' # wait)
             => srv' = srv /\ disk' = disk
       /\ (LiveRequestStep /\ req'.r.method = "GET"
             /\ req'.r.pathname = SLASH)
             => srv' = srv /\ disk' = disk
       /\ (LiveRequestStep /\ req'.r.method = "GET"
             /\ req'.r.pathname = SLASH \o B1)
             => LET kept == MapDelete(Live.tokens,
                                      req'.r.query.continuationToken)
                    tokens == srv'["live"].tokens
                IN /\ disk' = disk
                   /\ srv' = [srv EXCEPT !["live"].tokens = tokens]
                   /\ \/ tokens = kept
                      \/ /\ Len(tokens) = Len(kept) + 1
                         /\ SubSeq(tokens, 1, Len(kept)) = kept]_vars

\* a list-objects request has consumed one of the two tokens of the table;
\* the other token is still there
C38_Witness ==
    /\ req.op = "request"
    /\ req.r.method = "GET"
    /\ req.r.pathname = SLASH \o B1
    /\ req.r.query.continuationToken = cuuid(1)
    /\ resp.kind = "ListObjectsV2"
    /\ MapKeys(Live.tokens) = <<cuuid(2)>>
    /\ KeysOfB1 = {KA, KB}

====
